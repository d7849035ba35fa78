----------------------------- MODULE Integration -----------------------------
(***************************************************************************)
(* How an accepted task reaches the target branch: the review that freezes *)
(* a commit, the integration that fast-forwards the branch to it, the sync *)
(* that merges a branch that moved on into the task's workspace, and the   *)
(* recovery of what a crash left half done (src/internal/gitworkflow and   *)
(* src/internal/storage/integration.go).                                   *)
(*                                                                         *)
(* Requests run concurrently in the daemon.  Each database transaction and *)
(* each git command that changes the repository is a step of its own, and  *)
(* the repository lock (git.lock) is held from the step that takes it to   *)
(* the one that ends the request.  A request may end at every step: its    *)
(* client goes away, and with the request's context every later git        *)
(* command and statement fails, or the store refuses a statement.          *)
(* Agents and humans write in the workspaces and on the target branch      *)
(* with git itself, which takes no lock of ours.                           *)
(*                                                                         *)
(* All tasks have one target branch.  A run is only its claim and its      *)
(* success here: module TaskRuns has the rest of its life.                 *)
(***************************************************************************)
EXTENDS TaskStates, Integers, FiniteSets

CONSTANTS
    Tasks,          \* tasks that have a workspace
    Requests,       \* requests the daemon serves at a time
    NoOne,          \* holds the free lock
    MaxCommits,     \* bound on the commits of the repository
    MaxAttempts,    \* bound on the rows of task_integration_attempts
    MaxVersion      \* bound on tasks.version

ASSUME IntegrationAssumption ==
    /\ MaxCommits \in Nat \ {0} /\ MaxAttempts \in Nat /\ MaxVersion \in Nat
    /\ NoOne \notin Requests

Commits  == 1..MaxCommits       \* in the order they are written
Attempts == 1..MaxAttempts      \* in the order of creation
None     == 0                   \* no commit, no attempt

\* The steps of a request before it takes the lock for good, and after.
Before  == {"VERIFY", "CHECK", "REVERIFY", "COMMIT", "APPLY", "LOCK"}
Holding == {"RESERVE", "FORWARD", "MERGE", "MERGING", "ABORT", "COMPLETE", "GIVE_UP",
            "QUARANTINE"}
Done    == {"SUCCEEDED", "NEEDS_SYNC", "SYNCED", "CONFLICT", "FAILED"}

VARIABLES
    made, anc,      \* the commits are 1..made; anc: ancestors, itself included
    target,         \* refs/heads/<target branch>
    work,           \* the worktree of each task: HEAD, dirty, MERGE_HEAD
    ws,             \* table workspaces: state, head_sha, dirty
    status,         \* tasks.status
    version,        \* tasks.version
    reviews,        \* commit_sha of the ACCEPTED rows of task_reviews
    accepted,       \* commit_sha of the newest of them, None before
    attempt,        \* table task_integration_attempts
    req,            \* the requests being served
    lock,           \* who holds git.lock
    daemon,         \* "UP", "DOWN", "RECOVERING", "REFUSED" (start failed)
    aborted         \* attempt whose merge the recovery in progress aborted

gitVars  == <<made, anc, target, work>>
taskVars == <<status, version, reviews, accepted>>
hostVars == <<daemon, aborted>>
vars     == <<gitVars, ws, taskVars, attempt, req, lock, hostVars>>

NoAttempt == [status |-> "ABSENT", op |-> "NONE", task |-> None, source |-> None,
              before |-> None, after |-> None]
NoRequest == [pc |-> "IDLE", kind |-> "NONE", task |-> None, version |-> 0,
              source |-> None, target |-> None, result |-> "NONE", attempt |-> None]

Worktree  == [head : Commits, dirty : BOOLEAN, merging : Commits \cup {None}]
Workspace == [state : {"READY", "DIRTY", "QUARANTINED"}, head : Commits, dirty : BOOLEAN]
Attempt   == [status : Done \cup {"RUNNING", "ABSENT"}, op : {"INTEGRATE", "SYNC", "NONE"},
              task : Tasks \cup {None}, source : Commits \cup {None},
              before : Commits \cup {None}, after : Commits \cup {None}]
Request   == [pc : Before \cup Holding \cup {"IDLE"},
              kind : {"INTEGRATE", "SYNC", "ACCEPT", "COMMIT", "NONE"},
              task : Tasks \cup {None}, version : Nat, source : Commits \cup {None},
              target : Commits \cup {None}, result : Done \cup {"NONE", "MERGE", "FORWARD"},
              attempt : Attempts \cup {None}]

TypeOK ==
    /\ made \in Commits
    /\ anc \in [Commits -> SUBSET Commits]
    /\ target \in Commits
    /\ work \in [Tasks -> Worktree]
    /\ ws \in [Tasks -> Workspace]
    /\ status \in [Tasks -> TaskStatus]
    /\ version \in [Tasks -> Nat]
    /\ reviews \in [Tasks -> SUBSET Commits]
    /\ accepted \in [Tasks -> Commits \cup {None}]
    /\ attempt \in [Attempts -> Attempt]
    /\ req \in [Requests -> Request]
    /\ lock \in Requests \cup {NoOne}
    /\ daemon \in {"UP", "DOWN", "RECOVERING", "REFUSED"}
    /\ aborted \in Attempts \cup {None}

\* Each task has a fresh workspace at the first commit and a run at work in it.
Init ==
    /\ made = 1
    /\ anc = [c \in Commits |-> IF c = 1 THEN {1} ELSE {}]
    /\ target = 1
    /\ work = [t \in Tasks |-> [head |-> 1, dirty |-> FALSE, merging |-> None]]
    /\ ws = [t \in Tasks |-> [state |-> "READY", head |-> 1, dirty |-> FALSE]]
    /\ status = [t \in Tasks |-> "RUNNING"]
    /\ version = [t \in Tasks |-> 1]
    /\ reviews = [t \in Tasks |-> {}]
    /\ accepted = [t \in Tasks |-> None]
    /\ attempt = [a \in Attempts |-> NoAttempt]
    /\ req = [p \in Requests |-> NoRequest]
    /\ lock = NoOne
    /\ daemon = "UP"
    /\ aborted = None

-----------------------------------------------------------------------------
(* Git.                                                                    *)

\* The branch or commit c contains commit s (git merge-base --is-ancestor).
Contains(c, s) == s \in anc[c]

\* Commit made + 1 is written on top of the given ones.
Written(parents) ==
    /\ made < MaxCommits
    /\ made' = made + 1
    /\ anc' = [anc EXCEPT ![made + 1] = {made + 1} \cup UNION {anc[q] : q \in parents}]

\* A commit in the worktree takes up all changes and concludes a merge.
WrittenAt(t, merged) ==
    /\ Written({work[t].head} \cup (merged \ {None}))
    /\ work' = [work EXCEPT ![t] = [head |-> made + 1, dirty |-> FALSE, merging |-> None]]

Uncommitted(w) == w.dirty \/ w.merging # None

\* Mutant: the head read during a merge is the one that is merged.
Refreshed_MergeHead(w) == [state |-> IF Uncommitted(w) THEN "DIRTY" ELSE "READY",
                           head |-> w.merging, dirty |-> Uncommitted(w)]

\* The row of a workspace whose git identity was verified, from its worktree w.
Refreshed(w) == [state |-> IF Uncommitted(w) THEN "DIRTY" ELSE "READY",
                 head |-> w.head, dirty |-> Uncommitted(w)]

\* The identity of the worktree cannot be proved: another branch is checked
\* out in it, or its path leads elsewhere.
Quarantined(t) == [ws[t] EXCEPT !.state = "QUARANTINED"]

-----------------------------------------------------------------------------
(* Requests: helpers.                                                      *)

At(p, pc)    == req[p].pc = pc
Goto(p, pc)  == req' = [req EXCEPT ![p].pc = pc]
Finish(p)    == req' = [req EXCEPT ![p] = NoRequest]
Release(p)   == lock' = IF lock = p THEN NoOne ELSE lock
Return(p)    == Finish(p) /\ Release(p)
Acquire(p)   == lock = NoOne /\ lock' = p

Transition(t, c) ==
    /\ status[t] \in Sources(c)
    /\ status' = [status EXCEPT ![t] = Target(c)]
    /\ version' = [version EXCEPT ![t] = @ + 1]

Unfinished == {a \in Attempts : attempt[a].status = "RUNNING"}
Latest(t)  == {a \in Attempts : /\ attempt[a].task = t
                                /\ \A b \in Attempts : attempt[b].task = t => b <= a}

\* IntegrationStore.Complete
Complete(a, s) == attempt' = [attempt EXCEPT ![a].status = s]

\* Mutant: the task stays accepted when its workspace was synchronized.
CompleteSync_KeepAccepted(a, s, head) ==
    /\ attempt' = [attempt EXCEPT ![a].status = s, ![a].after = head]
    /\ UNCHANGED taskVars

\* IntegrationStore.CompleteSync: the attempt and the task, or neither.
CompleteSync(a, s, head) ==
    /\ Transition(attempt[a].task, "SYNC_TARGET")
    /\ attempt' = [attempt EXCEPT ![a].status = s, ![a].after = head]
    /\ UNCHANGED <<reviews, accepted>>
SyncRefused(a) == status[attempt[a].task] \notin Sources("SYNC_TARGET")

-----------------------------------------------------------------------------
(* Requests: what they have in common.                                     *)

\* The task and its reviews are read; the task must be in review to be
\* accepted or committed, accepted with a commit to be integrated or synced.
Begin(p, k, t) ==
    /\ daemon = "UP" /\ At(p, "IDLE")
    /\ IF k \in {"ACCEPT", "COMMIT"}
         THEN status[t] = "REVIEW"
         ELSE status[t] = "ACCEPTED" /\ accepted[t] # None
    /\ req' = [req EXCEPT ![p] =
                [NoRequest EXCEPT !.pc = IF k = "COMMIT" THEN "REVERIFY" ELSE "VERIFY",
                                  !.kind = k, !.task = t,
                                  !.version = IF k = "ACCEPT" THEN version[t] ELSE 0,
                                  !.source = IF k \in {"INTEGRATE", "SYNC"}
                                               THEN accepted[t] ELSE None]]
    /\ UNCHANGED <<gitVars, ws, taskVars, attempt, lock, hostVars>>

\* What request p does with the workspace row w that TaskWorkspace returned.
Verified(p, w) ==
    \/ /\ At(p, "VERIFY") /\ req[p].kind \in {"INTEGRATE", "SYNC"}
       /\ IF ~w.dirty /\ w.head = req[p].source THEN Goto(p, "LOCK") ELSE Finish(p)
    \/ /\ At(p, "VERIFY") /\ req[p].kind = "ACCEPT"
       /\ IF w.dirty THEN Goto(p, "CHECK")
          ELSE req' = [req EXCEPT ![p].pc = "APPLY", ![p].source = w.head]
    \/ /\ At(p, "REVERIFY")
       /\ IF w.dirty THEN Goto(p, "COMMIT") ELSE Finish(p)

\* TaskWorkspace: a row in READY or DIRTY is refreshed from the worktree under
\* the lock, any other is returned as it is.
Verify(p) ==
    LET t == req[p].task IN
    /\ At(p, "VERIFY") \/ At(p, "REVERIFY")
    /\ IF ws[t].state = "QUARANTINED"
         THEN Verified(p, ws[t]) /\ UNCHANGED ws
         ELSE /\ lock = NoOne
              /\ \/ ws' = [ws EXCEPT ![t] = Refreshed(work[t])] /\ Verified(p, Refreshed(work[t]))
                 \/ ws' = [ws EXCEPT ![t] = Quarantined(t)] /\ Finish(p)
    /\ UNCHANGED <<gitVars, taskVars, attempt, lock, hostVars>>

\* The request is given up at any step.  What it did stays, and so does the
\* attempt it reserved.
Drop(p) ==
    /\ req[p].pc # "IDLE"
    /\ Return(p)
    /\ UNCHANGED <<gitVars, ws, taskVars, attempt, hostVars>>

-----------------------------------------------------------------------------
(* Review: accepting a task commits what its workspace holds.              *)

\* CommitTaskWorkspace reads the task again, then the workspace again.
Check(p) ==
    /\ At(p, "CHECK")
    /\ IF status[req[p].task] = "REVIEW" THEN Goto(p, "REVERIFY") ELSE Finish(p)
    /\ UNCHANGED <<gitVars, ws, taskVars, attempt, lock, hostVars>>

\* The commit and the refresh after it, under the lock; the refresh may find
\* that the worktree is not the task's.
Commit(p) ==
    LET t == req[p].task IN
    /\ At(p, "COMMIT") /\ lock = NoOne
    /\ IF Uncommitted(work[t])
         THEN /\ WrittenAt(t, {work[t].merging})
              /\ \/ /\ ws' = [ws EXCEPT ![t] = Refreshed(work'[t])]
                    /\ IF req[p].kind = "ACCEPT"
                         THEN req' = [req EXCEPT ![p].pc = "APPLY", ![p].source = made + 1]
                         ELSE Finish(p)
                 \/ ws' = [ws EXCEPT ![t] = Quarantined(t)] /\ Finish(p)
         ELSE Finish(p) /\ UNCHANGED <<made, anc, work, ws>>
    /\ UNCHANGED <<target, taskVars, attempt, lock, hostVars>>

\* ApplyReview: only for the version the human saw.
ApplyReview(p) ==
    LET t == req[p].task IN
    /\ At(p, "APPLY")
    /\ IF version[t] = req[p].version
         THEN /\ Transition(t, "ACCEPT")
              /\ reviews' = [reviews EXCEPT ![t] = @ \cup {req[p].source}]
              /\ accepted' = [accepted EXCEPT ![t] = req[p].source]
         ELSE UNCHANGED taskVars
    /\ Finish(p)
    /\ UNCHANGED <<gitVars, ws, attempt, lock, hostVars>>

-----------------------------------------------------------------------------
(* Integration and sync, under the lock from here on.                      *)

\* The target branch is resolved and compared with the accepted commit.
LockForIntegrate(p) ==
    LET s == req[p].source
        reserve(r) == /\ Acquire(p)
                      /\ req' = [req EXCEPT ![p].pc = "RESERVE", ![p].target = target,
                                            ![p].result = r]
    IN
    /\ At(p, "LOCK") /\ req[p].kind = "INTEGRATE" /\ lock = NoOne
    /\ IF Contains(target, s)
         THEN IF \E a \in Latest(req[p].task) :
                    attempt[a].status = "SUCCEEDED" /\ attempt[a].source = s
                THEN Finish(p) /\ UNCHANGED lock
                ELSE reserve("SUCCEEDED")
         ELSE IF Contains(s, target) THEN reserve("FORWARD") ELSE reserve("NEEDS_SYNC")
    /\ UNCHANGED <<gitVars, ws, taskVars, attempt, hostVars>>

LockForSync(p) ==
    /\ At(p, "LOCK") /\ req[p].kind = "SYNC" /\ lock = NoOne
    /\ IF Contains(target, req[p].source) \/ Contains(req[p].source, target)
         THEN Finish(p) /\ UNCHANGED lock
         ELSE /\ Acquire(p)
              /\ req' = [req EXCEPT ![p].pc = "RESERVE", ![p].target = target,
                                    ![p].result = "MERGE"]
    /\ UNCHANGED <<gitVars, ws, taskVars, attempt, hostVars>>

\* Mutant: git goes first, the attempt is recorded as it ends.
Reserve_Late(p) ==
    LET t == req[p].task
        r == req[p].result IN
    /\ At(p, "RESERVE")
    /\ \E a \in Attempts :
        /\ attempt[a].status = "ABSENT" /\ \A b \in 1..(a - 1) : attempt[b].status # "ABSENT"
        /\ req' = [req EXCEPT ![p].attempt = a,
                              ![p].pc = IF r \in {"MERGE", "FORWARD"} THEN r ELSE "COMPLETE"]
    /\ UNCHANGED <<gitVars, ws, taskVars, attempt, lock, hostVars>>

\* The attempt is recorded before git changes anything.  A unique index allows
\* one running attempt per task.
Reserve(p) ==
    LET t == req[p].task
        r == req[p].result IN
    /\ At(p, "RESERVE")
    /\ \E a \in Attempts :
        /\ attempt[a].status = "ABSENT" /\ \A b \in 1..(a - 1) : attempt[b].status # "ABSENT"
        /\ \A b \in Unfinished : attempt[b].task # t
        /\ attempt' = [attempt EXCEPT ![a] =
                [status |-> "RUNNING", op |-> IF r = "MERGE" THEN "SYNC" ELSE "INTEGRATE",
                 task |-> t, source |-> req[p].source, before |-> req[p].target,
                 after |-> None]]
        /\ req' = [req EXCEPT ![p].attempt = a,
                              ![p].pc = IF r \in {"MERGE", "FORWARD"} THEN r ELSE "COMPLETE"]
    /\ UNCHANGED <<gitVars, ws, taskVars, lock, hostVars>>

\* The unique index, or the bound on rows, refuses the attempt.
ReserveFails(p) ==
    /\ At(p, "RESERVE")
    /\ \/ \E b \in Unfinished : attempt[b].task = req[p].task
       \/ \A a \in Attempts : attempt[a].status # "ABSENT"
    /\ Return(p)
    /\ UNCHANGED <<gitVars, ws, taskVars, attempt, hostVars>>

Result(p, s) == req' = [req EXCEPT ![p].pc = "COMPLETE", ![p].result = s]

\* Mutant: the error of the fast-forward is lost.
FastForward_IgnoreError(p) ==
    LET s == req[p].source IN
    /\ At(p, "FORWARD")
    /\ target' \in {target} \cup (IF Contains(s, target) THEN {s} ELSE {})
    /\ Result(p, "SUCCEEDED")
    /\ UNCHANGED <<made, anc, work, ws, taskVars, attempt, lock, hostVars>>

\* Mutant: update-ref without the value the branch was resolved to.
FastForward_Force(p) ==
    /\ At(p, "FORWARD")
    /\ target' = req[p].source /\ Result(p, "SUCCEEDED")
    /\ UNCHANGED <<made, anc, work, ws, taskVars, attempt, lock, hostVars>>

\* Mutant: the branch is forwarded to what the workspace has now.
FastForward_Workspace(p) ==
    LET s == work[req[p].task].head IN
    /\ At(p, "FORWARD")
    /\ \/ Contains(s, target) /\ target' = s /\ Result(p, "SUCCEEDED")
       \/ Result(p, "FAILED") /\ UNCHANGED target
    /\ UNCHANGED <<made, anc, work, ws, taskVars, attempt, lock, hostVars>>

\* update-ref when no worktree has the branch, merge --ff-only when the
\* repository's own one has it; git or the checks before it may refuse.
FastForward(p) ==
    LET s == req[p].source IN
    /\ At(p, "FORWARD")
    /\ \/ /\ target = req[p].target                     \* update-ref
          /\ target' = s /\ Result(p, "SUCCEEDED")
       \/ /\ Contains(s, target)                        \* merge --ff-only
          /\ target' = s /\ Result(p, "SUCCEEDED")
       \/ Result(p, "FAILED") /\ UNCHANGED target
    /\ UNCHANGED <<made, anc, work, ws, taskVars, attempt, lock, hostVars>>

\* Mutant: a failed fast-forward returns without giving the lock back.
Settle_KeepLock(p) ==
    /\ At(p, "COMPLETE") /\ req[p].result \notin {"SYNCED", "CONFLICT"}
    /\ Complete(req[p].attempt, req[p].result)
    /\ Finish(p)
    /\ IF req[p].result = "FAILED" THEN UNCHANGED lock ELSE Release(p)
    /\ UNCHANGED <<gitVars, ws, taskVars, hostVars>>

\* git merge: it refuses to start on top of an unfinished merge, which is then
\* taken for a conflict of its own.
StartMerge(p) ==
    LET t == req[p].task IN
    /\ At(p, "MERGE")
    /\ \/ /\ work[t].merging # None
          /\ Goto(p, "ABORT") /\ UNCHANGED work
       \/ /\ work[t].merging = None
          /\ IF Contains(work[t].head, req[p].target)
               THEN Result(p, "SYNCED") /\ UNCHANGED work
               ELSE Goto(p, "MERGING") /\ work' = [work EXCEPT ![t].merging = req[p].target]
       \/ /\ work[t].merging = None
          /\ Result(p, "FAILED") /\ UNCHANGED work
    /\ UNCHANGED <<made, anc, target, ws, taskVars, attempt, lock, hostVars>>

EndMerge(p) ==
    /\ At(p, "MERGING")
    /\ \/ WrittenAt(req[p].task, {req[p].target}) /\ Result(p, "SYNCED")
       \/ Goto(p, "ABORT") /\ UNCHANGED <<made, anc, work>>
    /\ UNCHANGED <<target, ws, taskVars, attempt, lock, hostVars>>

AbortMerge(p) ==
    /\ At(p, "ABORT")
    /\ \/ /\ work' = [work EXCEPT ![req[p].task].merging = None]
          /\ Result(p, "CONFLICT")
       \/ Goto(p, "GIVE_UP") /\ UNCHANGED work
    /\ UNCHANGED <<made, anc, target, ws, taskVars, attempt, lock, hostVars>>

\* The merge cannot be taken back: the attempt fails, then the workspace is
\* quarantined.
GiveUp(p) ==
    /\ At(p, "GIVE_UP")
    /\ Complete(req[p].attempt, "FAILED")
    /\ Goto(p, "QUARANTINE")
    /\ UNCHANGED <<gitVars, ws, taskVars, lock, hostVars>>

Quarantine(p) ==
    /\ At(p, "QUARANTINE")
    /\ ws' = [ws EXCEPT ![req[p].task] = Quarantined(req[p].task)]
    /\ Return(p)
    /\ UNCHANGED <<gitVars, taskVars, attempt, hostVars>>

Settle(p) ==
    /\ At(p, "COMPLETE") /\ req[p].result \notin {"SYNCED", "CONFLICT"}
    /\ Complete(req[p].attempt, req[p].result)
    /\ Return(p)
    /\ UNCHANGED <<gitVars, ws, taskVars, hostVars>>

\* After a sync the task needs a revision; the workspace is refreshed when the
\* merge succeeded.
SettleSync(p) ==
    LET t == req[p].task
        s == req[p].result
        head == IF s = "SYNCED" THEN work[t].head ELSE req[p].source IN
    /\ At(p, "COMPLETE") /\ s \in {"SYNCED", "CONFLICT"}
    /\ IF SyncRefused(req[p].attempt)
         THEN UNCHANGED <<taskVars, attempt, ws>>
         ELSE /\ CompleteSync(req[p].attempt, s, head)
              /\ IF s = "SYNCED"
                   THEN \E w \in {Refreshed(work[t]), Quarantined(t)} : ws' = [ws EXCEPT ![t] = w]
                   ELSE UNCHANGED ws
    /\ Return(p)
    /\ UNCHANGED <<gitVars, hostVars>>

-----------------------------------------------------------------------------
(* The daemon: crash, restart, recovery of integrations.                   *)

Crash ==
    /\ daemon \in {"UP", "RECOVERING"}
    /\ daemon' = "DOWN"
    /\ aborted' = None
    /\ req' = [p \in Requests |-> NoRequest]
    /\ lock' = NoOne
    /\ UNCHANGED <<gitVars, ws, taskVars, attempt>>

Start ==
    /\ daemon \in {"DOWN", "REFUSED"}
    /\ daemon' = "RECOVERING"
    /\ UNCHANGED <<gitVars, ws, taskVars, attempt, req, lock, aborted>>

\* The running attempts are recovered in the order of their creation.
Recovers(a, op) ==
    /\ daemon = "RECOVERING"
    /\ a \in Unfinished /\ \A b \in Unfinished : a <= b
    /\ attempt[a].op = op

\* Mutant: an interrupted integration counts as failed.
RecoverIntegrate_Fail(a) ==
    /\ Recovers(a, "INTEGRATE")
    /\ Complete(a, "FAILED")
    /\ UNCHANGED <<gitVars, ws, taskVars, req, lock, hostVars>>

\* The branch tells whether an interrupted integration took place.  Left out is the
\* branch that git cannot resolve, where the attempt is FAILED without that look.
RecoverIntegrate(a) ==
    /\ Recovers(a, "INTEGRATE")
    /\ Complete(a, IF Contains(target, attempt[a].source) THEN "SUCCEEDED" ELSE "FAILED")
    /\ UNCHANGED <<gitVars, ws, taskVars, req, lock, hostVars>>

\* An unfinished merge is taken back first, or the workspace quarantined.
RecoverMerge(a) ==
    LET t == attempt[a].task IN
    /\ Recovers(a, "SYNC")
    /\ work[t].merging # None
    /\ \/ /\ work' = [work EXCEPT ![t].merging = None]
          /\ aborted' = a
          /\ UNCHANGED <<ws, attempt>>
       \/ /\ ws' = [ws EXCEPT ![t] = Quarantined(t)]
          /\ Complete(a, "FAILED")
          /\ UNCHANGED <<work, aborted>>
    /\ UNCHANGED <<made, anc, target, taskVars, req, lock, daemon>>

\* Then the sync was a conflict; without one, the branch of the workspace tells
\* whether the merge took place.  A sync whose task is not accepted any more
\* cannot be completed, and the daemon does not start.
RecoverSync(a) ==
    LET t == attempt[a].task
        merged == /\ Contains(work[t].head, attempt[a].before)
                  /\ work[t].head # attempt[a].source
    IN
    /\ Recovers(a, "SYNC")
    /\ work[t].merging = None
    /\ IF aborted # a /\ ~merged
         THEN Complete(a, "FAILED") /\ UNCHANGED <<taskVars, daemon>>
       ELSE IF SyncRefused(a)
         THEN daemon' = "REFUSED" /\ UNCHANGED <<taskVars, attempt>>
       ELSE IF aborted = a
         THEN CompleteSync(a, "CONFLICT", attempt[a].source) /\ UNCHANGED daemon
       ELSE CompleteSync(a, "SYNCED", work[t].head) /\ UNCHANGED daemon
    /\ aborted' = None
    /\ UNCHANGED <<gitVars, ws, req, lock>>

Serve ==
    /\ daemon = "RECOVERING" /\ Unfinished = {}
    /\ daemon' = "UP"
    /\ UNCHANGED <<gitVars, ws, taskVars, attempt, req, lock, aborted>>

Recovery == Serve \/ \E a \in Attempts : RecoverIntegrate(a) \/ RecoverMerge(a) \/ RecoverSync(a)

-----------------------------------------------------------------------------
(* Runs, and humans at the API and at the keyboard.                        *)

\* A run is claimed, or ends with success; the details of a task in review or
\* accepted change, or it is rejected.
MoveTask(t) ==
    /\ daemon = "UP" /\ version[t] < MaxVersion
    /\ \/ Transition(t, "CLAIM_RUN") \/ Transition(t, "RUN_SUCCEEDED")
       \/ status[t] \in {"REVIEW", "ACCEPTED"} /\ Transition(t, "REQUEST_CHANGES")
    /\ UNCHANGED <<gitVars, ws, reviews, accepted, attempt, req, lock, hostVars>>

\* CreateTaskWorkspace, by a runner or on request: the worktree exists, so it
\* is verified whatever state its row is in.
OpenWorkspace(t) ==
    /\ daemon = "UP" /\ lock = NoOne
    /\ \E w \in {Refreshed(work[t]), Quarantined(t)} : ws' = [ws EXCEPT ![t] = w]
    /\ UNCHANGED <<gitVars, taskVars, attempt, req, lock, hostVars>>

EditWorktree(t) ==
    /\ work' = [work EXCEPT ![t].dirty = TRUE]
    /\ UNCHANGED <<made, anc, target, ws, taskVars, attempt, req, lock, hostVars>>

\* A commit in the worktree, which may merge the target branch or conclude a
\* merge that was left; git's index lock keeps it out of a running merge.
CommitInWorktree(t) ==
    /\ \A p \in Requests : req[p].task = t => ~At(p, "MERGING")
    /\ \E merged \in {{}, {target}} : WrittenAt(t, merged \cup {work[t].merging})
    /\ UNCHANGED <<target, ws, taskVars, attempt, req, lock, hostVars>>

\* Somebody commits to the target branch by hand.  An owner who merges a task branch
\* into it by hand is left out.
CommitOnTarget ==
    /\ Written({target})
    /\ target' = made + 1
    /\ UNCHANGED <<work, ws, taskVars, attempt, req, lock, hostVars>>

Others == \/ CommitOnTarget
          \/ \E t \in Tasks : \/ MoveTask(t) \/ OpenWorkspace(t)
                             \/ EditWorktree(t) \/ CommitInWorktree(t)

UnderLock(p) == \/ Reserve(p) \/ ReserveFails(p) \/ FastForward(p)
                \/ StartMerge(p) \/ EndMerge(p) \/ AbortMerge(p)
                \/ GiveUp(p) \/ Quarantine(p) \/ Settle(p) \/ SettleSync(p)

BeforeLock(p) == \/ Verify(p) \/ Check(p) \/ Commit(p) \/ ApplyReview(p)
                 \/ LockForIntegrate(p) \/ LockForSync(p)

Next == \/ \E p \in Requests : \/ BeforeLock(p) \/ UnderLock(p) \/ Drop(p)
                               \/ \E t \in Tasks, k \in {"INTEGRATE", "SYNC", "ACCEPT", "COMMIT"} :
                                    Begin(p, k, t)
        \/ Crash \/ Start \/ Recovery \/ Others

Spec == Init /\ [][Next]_vars

\* A request that holds the lock does not wait for anything; neither does the
\* recovery of a daemon that starts.
Fairness == WF_vars(Recovery) /\ \A p \in Requests : WF_vars(UnderLock(p))

FairSpec == Spec /\ Fairness

-----------------------------------------------------------------------------
(* Properties.                                                             *)

\* The verdict of an integration is what the target branch says: an attempt
\* ends SUCCEEDED exactly if the branch contains the accepted commit at that
\* moment, whether the request itself or the recovery after a crash ends it,
\* and NEEDS_SYNC only if it cannot be fast-forwarded any more.
VerdictIsTrue ==
    [][\A a \in Attempts :
        (attempt[a].status = "RUNNING" /\ attempt'[a].status # "RUNNING"
         /\ attempt[a].op = "INTEGRATE") =>
            /\ attempt'[a].status = "SUCCEEDED" <=> Contains(target, attempt[a].source)
            /\ attempt'[a].status = "NEEDS_SYNC" => ~Contains(attempt[a].source, target)]_vars

\* When the branch moves to a commit that was there before, a running attempt
\* with that commit was recorded first: a crash right after the move finds it.
LandsReserved ==
    [][(target' # target /\ target' <= made) =>
        \E a \in Unfinished : /\ attempt[a].op = "INTEGRATE"
                              /\ attempt[a].source = target'
                              /\ a \in Unfinished']_vars

\* A sync that is SYNCED left the target branch it saw in the workspace, and a
\* conflict left no merge behind; either way its task is not accepted any more
\* from the same step on, so what the merge made is reviewed before it lands.
SyncIsRevised ==
    [][\A a \in Attempts :
        (attempt[a].status = "RUNNING" /\ attempt'[a].status \in {"SYNCED", "CONFLICT"}) =>
            LET t == attempt[a].task IN
            /\ status[t] = "ACCEPTED" /\ status'[t] = "CHANGES_REQUESTED"
            /\ attempt'[a].status = "SYNCED" => Contains(attempt'[a].after, attempt[a].before)
            /\ attempt'[a].status = "CONFLICT" => work[t].merging = None]_vars

\* The target branch obeys module Landing: every commit stays on it, and the
\* program moves it only forward and only to what a human accepted.
Landed == UNION {reviews[t] : t \in Tasks}
L == INSTANCE Landing WITH accepted <- Landed
HoldsLanding == L!Spec

\* Whoever takes the repository lock gives it back, also when git or the store
\* fails: nobody else's git operation waits for ever.
LockIsReturned == \A p \in Requests : lock = p ~> lock # p
=============================================================================
