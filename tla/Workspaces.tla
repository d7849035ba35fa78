----------------------------- MODULE Workspaces -----------------------------
(***************************************************************************)
(* How a task gets its workspace: the target branch it may still choose,   *)
(* the row reserved for it, the branch and the linked worktree git makes,  *)
(* and the verification that links the row with the task or quarantines it *)
(* (src/internal/gitworkflow/manager.go, src/internal/storage/workspace.go)*)
(*                                                                         *)
(* `git worktree add -b` makes the branch, then a worktree without files,  *)
(* then checks the files out.  A request may end between any two steps:    *)
(* with its context the git command is killed and every later statement    *)
(* fails.  Agents and people use git in the worktree, and take   *)
(* no lock.  What becomes of a workspace that is ready is the subject of   *)
(* module Integration.                                                     *)
(***************************************************************************)
EXTENDS Naturals

CONSTANTS
    Tasks, Branches,
    Requests,       \* requests and runners at work at a time
    NoOne,          \* holds the free lock
    Default,        \* default branch of the project
    MaxCommits,     \* bound on the commits of the repository
    MaxVersion      \* bound on tasks.version

ASSUME WorkspacesAssumption ==
    /\ NoOne \notin Requests /\ Default \in Branches /\ MaxCommits \in Nat
    /\ MaxVersion \in Nat \ {0}

None == "NONE"                  \* no branch chosen, no row
Commits == 0..MaxCommits

VARIABLES
    head,       \* local branch -> its commit
    made,       \* number of commits made
    tree,       \* task -> its branch and worktree in git
    touched,    \* tasks whose branch or worktree somebody changed with git
    orphan,     \* tasks whose `git worktree add` outlived the process that ran it
    task,       \* tasks: target_branch, base_commit_sha, current_workspace_id, version
    events,     \* task -> the branch named by its newest TARGET_BRANCH_CHANGED event
    ws,         \* table workspaces
    req,        \* the requests being served
    lock        \* who holds git.lock

vars    == <<head, made, tree, touched, orphan, task, events, ws, req, lock>>
gitVars == <<head, made, tree, touched, orphan>>

NoTree == [branch |-> FALSE, path |-> "ABSENT", head |-> 0, dirty |-> FALSE]
NoRow  == [state |-> None, target |-> None, base |-> 0, head |-> 0]
Idle   == [at |-> "IDLE", kind |-> None, task |-> None, target |-> None, version |-> 0, head |-> 0]

TreeRecord == [branch : BOOLEAN, path : {"ABSENT", "EMPTY", "FULL", "FOREIGN"},
               head : Commits, dirty : BOOLEAN]
TaskRecord == [target : Branches \cup {None}, base : Commits, linked : BOOLEAN,
               version : 1..MaxVersion]
WsRecord   == [state : {None, "PROVISIONING", "READY", "DIRTY", "QUARANTINED", "ERROR"},
               target : Branches \cup {None}, base : Commits, head : Commits]
RequestRecord ==
    [at : {"LOCK", "RESERVE", "PROVISION", "ADD_BRANCH", "ADD_TREE", "CHECKOUT", "FAIL",
           "VERIFY", "QUARANTINE", "READ", "MARK", "UPDATE"},
     kind : {"CREATE", "VERIFY", "UPDATE"}, task : Tasks, target : Branches \cup {None},
     version : 0..MaxVersion, head : Commits]

TypeOK ==
    /\ head \in [Branches -> Commits] /\ made \in Commits
    /\ tree \in [Tasks -> TreeRecord]
    /\ touched \subseteq Tasks /\ orphan \subseteq Tasks
    /\ task \in [Tasks -> TaskRecord]
    /\ events \in [Tasks -> Branches \cup {None}]
    /\ ws \in [Tasks -> WsRecord]
    /\ req \in [Requests -> RequestRecord \cup {Idle}]
    /\ lock \in Requests \cup {NoOne}

Init ==
    /\ head = [b \in Branches |-> 0] /\ made = 0
    /\ tree = [t \in Tasks |-> NoTree]
    /\ touched = {} /\ orphan = {}
    /\ task = [t \in Tasks |-> [target |-> None, base |-> 0, linked |-> FALSE, version |-> 1]]
    /\ events = [t \in Tasks |-> None]
    /\ ws = [t \in Tasks |-> NoRow]
    /\ req = [q \in Requests |-> Idle]
    /\ lock = NoOne

Goes(q, at) == req' = [req EXCEPT ![q].at = at] /\ UNCHANGED lock
Returns(q)  == req' = [req EXCEPT ![q] = Idle] /\ lock' = IF lock = q THEN NoOne ELSE lock
IsReady(t)  == ws[t].state \in {"READY", "DIRTY"}

-----------------------------------------------------------------------------
(* Git, in other hands.                                                    *)

CommitOnBranch(b) ==
    /\ made < MaxCommits
    /\ made' = made + 1
    /\ head' = [head EXCEPT ![b] = made + 1]
    /\ UNCHANGED <<tree, touched, orphan, task, events, ws, req, lock>>

\* The agent's files, and perhaps its own commit of them.
Edit(t) ==
    /\ tree[t].path = "FULL"
    /\ \/ made' = made /\ tree' = [tree EXCEPT ![t].dirty = TRUE]
       \/ /\ made < MaxCommits
          /\ made' = made + 1
          /\ tree' = [tree EXCEPT ![t].head = made + 1, ![t].dirty = FALSE]
    /\ UNCHANGED <<head, touched, orphan, task, events, ws, req, lock>>

\* The worktree is put on another branch, removed, or brought back.
Tamper(t) ==
    /\ tree[t].branch
    /\ \/ tree[t].path = "FULL" /\ \E p \in {"ABSENT", "FOREIGN"} :
            tree' = [tree EXCEPT ![t].path = p, ![t].dirty = FALSE]
       \/ tree[t].path # "FULL" /\ tree' = [tree EXCEPT ![t].path = "FULL", ![t].dirty = FALSE]
       \/ tree[t].path = "ABSENT" /\ tree' = [tree EXCEPT ![t] = NoTree]
    /\ touched' = touched \cup {t}
    /\ UNCHANGED <<head, made, orphan, task, events, ws, req, lock>>

-----------------------------------------------------------------------------
(* The requests: CreateTaskWorkspace by a person or by the runner of a     *)
(* claimed run, TaskWorkspace by everything that looks at one, and         *)
(* UpdateTaskTargetBranch with the version its page shows.                 *)

Ask(q) ==
    /\ req[q].at = "IDLE"
    /\ \E t \in Tasks, k \in {"CREATE", "UPDATE"}, b \in Branches :
         req' = [req EXCEPT ![q] = [at |-> "LOCK", kind |-> k, task |-> t, target |-> b,
                                    version |-> task[t].version, head |-> 0]]
    /\ UNCHANGED <<gitVars, task, events, ws, lock>>

\* Only a row that is READY or DIRTY is verified; others are shown as they are.
TaskWorkspace(q) ==
    /\ req[q].at = "IDLE"
    /\ \E t \in Tasks :
         /\ IsReady(t)
         /\ req' = [req EXCEPT ![q] = [at |-> "LOCK", kind |-> "VERIFY", task |-> t,
                                       target |-> None, version |-> 0, head |-> 0]]
    /\ UNCHANGED <<gitVars, task, events, ws, lock>>

First(kind) ==
    CASE kind = "CREATE" -> "RESERVE" [] kind = "VERIFY" -> "VERIFY" [] kind = "UPDATE" -> "UPDATE"

\* Mutant: the lock is not waited for.
Acquire_Shared(q) ==
    /\ req[q].at = "LOCK"
    /\ lock' = q
    /\ req' = [req EXCEPT ![q].at = First(req[q].kind)]
    /\ UNCHANGED <<gitVars, task, events, ws>>

Acquire(q) ==
    /\ req[q].at = "LOCK" /\ lock = NoOne
    /\ lock' = q
    /\ req' = [req EXCEPT ![q].at = First(req[q].kind)]
    /\ UNCHANGED <<gitVars, task, events, ws>>

\* Mutant: the guard on current_workspace_id is missing.
UpdateTargetBranch_Linked(q) ==
    LET t == req[q].task
    IN  /\ req[q].at = "UPDATE"
        /\ task[t].version = req[q].version /\ task[t].version < MaxVersion
        /\ task' = [task EXCEPT ![t].target = req[q].target, ![t].version = @ + 1]
        /\ events' = [events EXCEPT ![t] = req[q].target]
        /\ Returns(q)
        /\ UNCHANGED <<gitVars, ws>>

\* Refused: an old version, a linked workspace, or nothing to change.
UpdateTargetBranch(q) ==
    LET t == req[q].task
        refused == \/ task[t].version # req[q].version \/ task[t].linked
                   \/ task[t].target = req[q].target
    IN  /\ req[q].at = "UPDATE"
        /\ \/ refused /\ UNCHANGED <<task, events>>
           \/ /\ ~refused /\ task[t].version < MaxVersion
              /\ task' = [task EXCEPT ![t].target = req[q].target, ![t].version = @ + 1]
              /\ events' = [events EXCEPT ![t] = req[q].target]
        /\ Returns(q)
        /\ UNCHANGED <<gitVars, ws>>

\* Mutant: a row that is not ready is reserved anew.
Reserve_Renewed(q) ==
    LET t == req[q].task
        b == IF task[t].target = None THEN Default ELSE task[t].target
    IN  /\ req[q].at = "RESERVE"
        /\ IF ~IsReady(t)
           THEN ws' = [ws EXCEPT ![t] = [state |-> "PROVISIONING", target |-> b,
                                         base |-> head[b], head |-> 0]]
           ELSE UNCHANGED ws
        /\ Goes(q, IF IsReady(t) THEN "VERIFY" ELSE "PROVISION")
        /\ UNCHANGED <<gitVars, task, events>>

\* The row that is there stays as it is, whatever target the task has now.
Reserve(q) ==
    LET t == req[q].task
        b == IF task[t].target = None THEN Default ELSE task[t].target
    IN  /\ req[q].at = "RESERVE"
        /\ IF ws[t].state = None
           THEN ws' = [ws EXCEPT ![t] = [state |-> "PROVISIONING", target |-> b,
                                         base |-> head[b], head |-> 0]]
           ELSE UNCHANGED ws
        /\ Goes(q, IF IsReady(t) THEN "VERIFY" ELSE "PROVISION")
        /\ UNCHANGED <<gitVars, task, events>>

\* A path that is there is taken over if it is ours; a branch that is there is not.
Provision(q) ==
    LET t == req[q].task
    IN  /\ req[q].at = "PROVISION"
        /\ Goes(q, CASE tree[t].path # "ABSENT" -> "VERIFY"
                     [] tree[t].path = "ABSENT" /\ tree[t].branch -> "FAIL"
                     [] OTHER -> "ADD_BRANCH")
        /\ UNCHANGED <<gitVars, task, events, ws>>

\* The three effects of `git worktree add -b`, and its failure.
WorktreeAdd(q) ==
    LET t == req[q].task
        of(at, change) == req[q].at = at /\ tree' = [tree EXCEPT ![t] = change]
    IN  /\ \/ /\ of("ADD_BRANCH", [tree[t] EXCEPT !.branch = TRUE, !.head = ws[t].base])
              /\ ~tree[t].branch /\ Goes(q, "ADD_TREE")
           \/ /\ of("ADD_TREE", [tree[t] EXCEPT !.path = "EMPTY", !.dirty = TRUE])
              /\ tree[t].path = "ABSENT" /\ Goes(q, "CHECKOUT")
           \/ of("CHECKOUT", [tree[t] EXCEPT !.path = "FULL", !.dirty = FALSE]) /\ Goes(q, "VERIFY")
           \/ req[q].at \in {"ADD_BRANCH", "ADD_TREE"} /\ Goes(q, "FAIL") /\ UNCHANGED tree
        /\ UNCHANGED <<head, made, touched, orphan, task, events, ws>>

\* Mutant: the failed row is given a state of its own.
MarkError_Failed(q) ==
    /\ req[q].at = "FAIL"
    /\ ws' = [ws EXCEPT ![req[q].task].state = "FAILED"]
    /\ Returns(q)
    /\ UNCHANGED <<gitVars, task, events>>

MarkError(q) ==
    /\ req[q].at = "FAIL"
    /\ ws' = [ws EXCEPT ![req[q].task].state = "ERROR"]
    /\ Returns(q)
    /\ UNCHANGED <<gitVars, task, events>>

\* The path is a worktree of this repository, on the branch of the task.
Identity(t) == tree[t].path \in {"EMPTY", "FULL"}

VerifyIdentity(q) ==
    /\ req[q].at = "VERIFY"
    /\ \/ Identity(req[q].task) /\ Goes(q, "READ")
       \/ Goes(q, "QUARANTINE")             \* not ours, or git failed to tell
    /\ UNCHANGED <<gitVars, task, events, ws>>

ReadHead(q) ==
    /\ req[q].at = "READ"
    /\ req' = [req EXCEPT ![q].at = "MARK", ![q].head = tree[req[q].task].head]
    /\ UNCHANGED <<gitVars, task, events, ws, lock>>

\* The row and, in the same transaction, the task that it takes along.
MarkReady(q) ==
    LET t == req[q].task
        linked == [task[t] EXCEPT !.target = ws[t].target, !.base = ws[t].base, !.linked = TRUE]
    IN  /\ req[q].at = "MARK"
        /\ ws' = [ws EXCEPT ![t].state = IF tree[t].dirty THEN "DIRTY" ELSE "READY",
                            ![t].head = req[q].head]
        /\ \/ task[t] = linked /\ UNCHANGED task
           \/ /\ task[t] # linked /\ task[t].version < MaxVersion
              /\ task' = [task EXCEPT ![t] = [linked EXCEPT !.version = @ + 1]]
        /\ Returns(q)
        /\ UNCHANGED <<gitVars, events>>

MarkQuarantined(q) ==
    /\ req[q].at = "QUARANTINE"
    /\ ws' = [ws EXCEPT ![req[q].task].state = "QUARANTINED"]
    /\ Returns(q)
    /\ UNCHANGED <<gitVars, task, events>>

\* The client goes away, or the runner or the daemon dies.  The git command that
\* is running is killed with the context, and goes on when its parent dies.
GiveUp(q) ==
    /\ req[q].at # "IDLE"
    /\ \/ UNCHANGED orphan
       \/ req[q].at \in {"ADD_TREE", "CHECKOUT"} /\ orphan' = orphan \cup {req[q].task}
    /\ Returns(q)
    /\ UNCHANGED <<head, made, tree, touched, task, events, ws>>

GitGoesOn(t) ==
    /\ t \in orphan
    /\ \/ /\ tree[t].branch /\ tree[t].path = "ABSENT"
          /\ tree' = [tree EXCEPT ![t].path = "EMPTY", ![t].dirty = TRUE] /\ UNCHANGED orphan
       \/ /\ tree[t].path = "EMPTY"
          /\ tree' = [tree EXCEPT ![t].path = "FULL", ![t].dirty = FALSE]
          /\ orphan' = orphan \ {t}
       \/ ~tree[t].branch /\ orphan' = orphan \ {t} /\ UNCHANGED tree
       \/ tree[t].path \in {"FULL", "FOREIGN"} /\ orphan' = orphan \ {t} /\ UNCHANGED tree
    /\ UNCHANGED <<head, made, touched, task, events, ws, req, lock>>

Next ==
    \/ \E b \in Branches : CommitOnBranch(b)
    \/ \E t \in Tasks : Edit(t) \/ Tamper(t) \/ GitGoesOn(t)
    \/ \E q \in Requests :
        \/ Ask(q) \/ TaskWorkspace(q) \/ Acquire(q) \/ UpdateTargetBranch(q) \/ Reserve(q)
        \/ Provision(q) \/ WorktreeAdd(q) \/ MarkError(q) \/ VerifyIdentity(q) \/ ReadHead(q)
        \/ MarkReady(q) \/ MarkQuarantined(q) \/ GiveUp(q)

Spec == Init /\ [][Next]_vars

-----------------------------------------------------------------------------
(* Properties.                                                             *)

\* The two tables agree: once its workspace has been ready, the task is linked with
\* it and has the target branch and the base commit the workspace was made from,
\* although both were chosen on pages and in requests that overlap.
TaskFollowsWorkspace ==
    \A t \in Tasks :
        /\ IsReady(t) => task[t].linked
        /\ task[t].linked => /\ task[t].target = ws[t].target
                             /\ task[t].base = ws[t].base

\* A workspace that was ready is never reported as failed to be created: no two
\* requests create the same one.
ReadyIsNotCreatedAgain ==
    [][\A t \in Tasks : IsReady(t) => ws'[t].state # "ERROR"]_ws

\* A worktree that nobody else touched with git is of the branch that was
\* reserved, and starts at the commit that was reserved or later; and a row is
\* made READY only for a worktree that was on its branch at some time.
OursIsWhatWasReserved ==
    \A t \in Tasks \ touched :
        /\ tree[t].branch => ws[t].state # None /\ tree[t].head >= ws[t].base
        /\ IsReady(t) => tree[t].branch /\ tree[t].path \in {"EMPTY", "FULL"}

\* The row of a workspace is about the worktree and the task it says it is about.
WorkspaceInvariant == TypeOK /\ TaskFollowsWorkspace /\ OursIsWhatWasReserved
=============================================================================
