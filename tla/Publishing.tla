----------------------------- MODULE Publishing -----------------------------
(***************************************************************************)
(* Releases: a row that fixes branch, commit and tasks of a version, and   *)
(* the annotated tag made for it (CreateRelease in                         *)
(* src/internal/gitworkflow/manager.go, src/internal/storage/release.go).  *)
(*                                                                         *)
(* A commit is the set of the changes it contains, so that one is an       *)
(* ancestor of another when its change is a member.  How an accepted       *)
(* change reaches a branch is the subject of module Integration; here it   *)
(* lands in one step.  Meanwhile people accept and reopen tasks, commit,   *)
(* and make and delete tags with git itself, which takes no lock of ours.  *)
(***************************************************************************)
EXTENDS Naturals, FiniteSets

CONSTANTS
    Tasks, Versions, Branches,
    Requests,       \* requests the daemon serves at a time
    NoOne,          \* holds the free lock
    MaxChanges      \* bound on the accepted commits of a task, and on other commits

ASSUME PublishingAssumption == MaxChanges \in Nat /\ NoOne \notin Requests

Other   == "other"                              \* the author of changes without a task
Changes == (Tasks \cup {Other}) \X (1..MaxChanges)

VARIABLES
    head,       \* branch -> commit
    newest,     \* task -> number of its newest accepted commit; Other -> commits made
    accepted,   \* the tasks that are ACCEPTED
    release,    \* table releases with release_tasks
    tag,        \* refs/tags
    byHand,     \* versions whose tag somebody made or deleted with git
    req,        \* the requests being served
    lock        \* who holds git.lock

vars    == <<head, newest, accepted, release, tag, byHand, req, lock>>
gitVars == <<head, newest, accepted>>

NoRelease == [status |-> "ABSENT", branch |-> "", commit |-> {}, tasks |-> {}]
NoTag     == [kind |-> "NONE", commit |-> {}]
Idle      == [at |-> "IDLE"]

ReleaseRecord == [status : {"ABSENT", "CREATING", "TAGGED", "FAILED"}, branch : Branches \cup {""},
                  commit : SUBSET Changes, tasks : SUBSET Tasks]
TagRecord     == [kind : {"NONE", "ANNOTATED", "LIGHT"}, commit : SUBSET Changes]

\* A request: what was asked for, what ResolveBranch and ListTasks read, the
\* tasks still to be looked at, and the status that Reserve saw.
RequestRecord == [at : {"LOCK", "LIST", "INFER", "TAG", "MARK", "FAIL"},
                  version : Versions, branch : Branches, commit : SUBSET Changes,
                  tasks : SUBSET Tasks, asked : SUBSET Tasks, listed : SUBSET Tasks,
                  todo : SUBSET Tasks, known : {"", "CREATING", "TAGGED", "FAILED"}]

TypeOK ==
    /\ head \in [Branches -> SUBSET Changes]
    /\ newest \in [Tasks \cup {Other} -> 0..MaxChanges]
    /\ accepted \subseteq Tasks
    /\ release \in [Versions -> ReleaseRecord]
    /\ tag \in [Versions -> TagRecord]
    /\ byHand \subseteq Versions
    /\ req \in [Requests -> RequestRecord \cup {Idle}]
    /\ lock \in Requests \cup {NoOne}

Init ==
    /\ head = [b \in Branches |-> {}]
    /\ newest = [t \in Tasks \cup {Other} |-> 0]
    /\ accepted = {}
    /\ release = [v \in Versions |-> NoRelease]
    /\ tag = [v \in Versions |-> NoTag]
    /\ byHand = {}
    /\ req = [q \in Requests |-> Idle]
    /\ lock = NoOne

-----------------------------------------------------------------------------
(* What goes on around the requests.                                       *)

\* A review accepts the task, with the commit of its workspace or without one.
Accept(t) ==
    /\ t \notin accepted
    /\ accepted' = accepted \cup {t}
    /\ \/ UNCHANGED newest
       \/ newest[t] < MaxChanges /\ newest' = [newest EXCEPT ![t] = @ + 1]
    /\ UNCHANGED <<head, release, tag, byHand, req, lock>>

\* Changes are requested, or the target branch is merged into the workspace.
Reopen(t) ==
    /\ t \in accepted
    /\ accepted' = accepted \ {t}
    /\ UNCHANGED <<head, newest, release, tag, byHand, req, lock>>

\* The newest accepted commit of a task, with those before it, reaches a branch.
Land(t, b) ==
    /\ newest[t] > 0 /\ <<t, newest[t]>> \notin head[b]
    /\ head' = [head EXCEPT ![b] = @ \cup ({t} \X (1..newest[t]))]
    /\ UNCHANGED <<newest, accepted, release, tag, byHand, req, lock>>

CommitByHand(b) ==
    /\ newest[Other] < MaxChanges
    /\ newest' = [newest EXCEPT ![Other] = @ + 1]
    /\ head' = [head EXCEPT ![b] = @ \cup {<<Other, newest[Other] + 1>>}]
    /\ UNCHANGED <<accepted, release, tag, byHand, req, lock>>

TagByHand(v) ==
    /\ tag' = [tag EXCEPT ![v] = NoTag]
           \/ \E b \in Branches, k \in {"ANNOTATED", "LIGHT"} :
                tag[v] = NoTag /\ tag' = [tag EXCEPT ![v] = [kind |-> k, commit |-> head[b]]]
    /\ tag' # tag
    /\ byHand' = byHand \cup {v}
    /\ UNCHANGED <<head, newest, accepted, release, req, lock>>

-----------------------------------------------------------------------------
(* CreateRelease.                                                          *)

Goes(q, at)  == req' = [req EXCEPT ![q].at = at] /\ UNCHANGED lock
Returns(q)   == req' = [req EXCEPT ![q] = Idle] /\ lock' = NoOne

\* The caller names tasks of its own; the inferred ones are added to them.
Ask(q) ==
    /\ req[q].at = "IDLE"
    /\ \E v \in Versions, b \in Branches, a \in SUBSET Tasks :
         /\ Cardinality(a) <= 1
         /\ req' = [req EXCEPT ![q] = [at |-> "LOCK", version |-> v, branch |-> b, commit |-> {},
                                       tasks |-> a, asked |-> a, listed |-> {}, todo |-> {},
                                       known |-> ""]]
    /\ UNCHANGED <<gitVars, release, tag, byHand, lock>>

\* The lock, and under it the commit of the branch.
ResolveBranch(q) ==
    /\ req[q].at = "LOCK" /\ lock = NoOne
    /\ lock' = q
    /\ req' = [req EXCEPT ![q].at = "LIST", ![q].commit = head[req[q].branch]]
    /\ UNCHANGED <<gitVars, release, tag, byHand>>

ListTasks(q) ==
    /\ req[q].at = "LIST"
    /\ req' = [req EXCEPT ![q].at = "INFER", ![q].listed = accepted, ![q].todo = accepted]
    /\ UNCHANGED <<gitVars, release, tag, byHand, lock>>

\* Mutant: every accepted task is part of the release.
Shipped_Accepted(t, commit) == newest[t] > 0

\* The newest accepted review with a commit decides.
Shipped(t, commit) == newest[t] > 0 /\ <<t, newest[t]>> \in commit

\* The reviews of the listed tasks are read one by one.
InferReleaseTask(q) ==
    /\ req[q].at = "INFER"
    /\ \E t \in req[q].todo :
         req' = [req EXCEPT ![q].todo = @ \ {t},
                            ![q].tasks = IF Shipped(t, req[q].commit) THEN @ \cup {t} ELSE @]
    /\ UNCHANGED <<gitVars, release, tag, byHand, lock>>

Insert(q) ==
    /\ release' = [release EXCEPT ![req[q].version] =
         [status |-> "CREATING", branch |-> req[q].branch, commit |-> req[q].commit,
          tasks |-> req[q].tasks]]
    /\ req' = [req EXCEPT ![q].at = "TAG", ![q].known = "CREATING"]

\* Mutant: a version that is there already is pointed at the new commit.
Reserve_Retargets(q) ==
    /\ req[q].at = "INFER" /\ req[q].todo = {}
    /\ Insert(q)
    /\ UNCHANGED <<gitVars, tag, byHand, lock>>

\* A version that is there is returned if it is the same release, refused if not.
Reserve(q) ==
    LET v    == req[q].version
        same == /\ release[v].branch = req[q].branch /\ release[v].commit = req[q].commit
                /\ release[v].tasks = req[q].tasks
    IN  /\ req[q].at = "INFER" /\ req[q].todo = {}
        /\ \/ release[v].status = "ABSENT" /\ Insert(q) /\ UNCHANGED lock
           \/ /\ release[v].status # "ABSENT" /\ same
              /\ req' = [req EXCEPT ![q].at = "TAG", ![q].known = release[v].status]
              /\ UNCHANGED <<release, lock>>
           \/ release[v].status # "ABSENT" /\ ~same /\ Returns(q) /\ UNCHANGED release
        /\ UNCHANGED <<gitVars, tag, byHand>>

\* Mutant: the tag is forced.
EnsureAnnotatedTag_Force(q) ==
    LET v == req[q].version
    IN  /\ req[q].at = "TAG"
        /\ tag' = [tag EXCEPT ![v] = [kind |-> "ANNOTATED", commit |-> release[v].commit]]
        /\ Goes(q, "MARK")
        /\ UNCHANGED <<gitVars, release, byHand>>

\* Mutant: any tag of that name will do.
EnsureAnnotatedTag_AnyTag(q) ==
    LET v == req[q].version
    IN  /\ req[q].at = "TAG"
        /\ \/ tag[v] # NoTag /\ Goes(q, "MARK") /\ UNCHANGED tag
           \/ /\ tag[v] = NoTag
              /\ \/ /\ tag' = [tag EXCEPT ![v] = [kind |-> "ANNOTATED",
                                                  commit |-> release[v].commit]]
                    /\ Goes(q, "MARK")
                 \/ Goes(q, "MARK") /\ UNCHANGED tag
        /\ UNCHANGED <<gitVars, release, byHand>>

\* A tag that is there is checked, never moved; git may fail to make one.
EnsureAnnotatedTag(q) ==
    LET v     == req[q].version
        right == [kind |-> "ANNOTATED", commit |-> release[v].commit]
    IN  /\ req[q].at = "TAG"
        /\ \/ tag[v] # NoTag /\ Goes(q, IF tag[v] = right THEN "MARK" ELSE "FAIL") /\ UNCHANGED tag
           \/ tag[v] = NoTag /\ tag' = [tag EXCEPT ![v] = right] /\ Goes(q, "MARK")
           \/ tag[v] = NoTag /\ Goes(q, "FAIL") /\ UNCHANGED tag
        /\ UNCHANGED <<gitVars, release, byHand>>

\* Only a release that was read as TAGGED is left alone.
MarkTagged(q) ==
    /\ req[q].at = "MARK"
    /\ IF req[q].known = "TAGGED"
       THEN UNCHANGED release
       ELSE release' = [release EXCEPT ![req[q].version].status = "TAGGED"]
    /\ Returns(q)
    /\ UNCHANGED <<gitVars, tag, byHand>>

\* Mutant: a status the table does not know.
MarkFailed_Error(q) ==
    /\ req[q].at = "FAIL"
    /\ release' = [release EXCEPT ![req[q].version].status = "ERROR"]
    /\ Returns(q)
    /\ UNCHANGED <<gitVars, tag, byHand>>

\* Whatever the status was.
MarkFailed(q) ==
    /\ req[q].at = "FAIL"
    /\ release' = [release EXCEPT ![req[q].version].status = "FAILED"]
    /\ Returns(q)
    /\ UNCHANGED <<gitVars, tag, byHand>>

\* The client goes away, a command or a statement fails, or the daemon crashes:
\* the rest is not done, and the lock goes with the request.
GiveUp(q) ==
    /\ req[q].at # "IDLE"
    /\ req' = [req EXCEPT ![q] = Idle]
    /\ lock' = IF lock = q THEN NoOne ELSE lock
    /\ UNCHANGED <<gitVars, release, tag, byHand>>

Next ==
    \/ \E t \in Tasks : Accept(t) \/ Reopen(t) \/ \E b \in Branches : Land(t, b)
    \/ \E b \in Branches : CommitByHand(b)
    \/ \E v \in Versions : TagByHand(v)
    \/ \E q \in Requests :
        \/ Ask(q) \/ ResolveBranch(q) \/ ListTasks(q) \/ InferReleaseTask(q) \/ Reserve(q)
        \/ EnsureAnnotatedTag(q) \/ MarkTagged(q) \/ MarkFailed(q) \/ GiveUp(q)

Spec == Init /\ [][Next]_vars

-----------------------------------------------------------------------------
(* Properties.                                                             *)

\* A version names one branch, commit and set of tasks for good, however often
\* and from whatever state of the repository it is asked for again.
ReleaseIsFixed ==
    [][\A v \in Versions : release[v].status # "ABSENT" =>
        /\ release'[v].branch = release[v].branch
        /\ release'[v].commit = release[v].commit
        /\ release'[v].tasks = release[v].tasks]_<<release>>

\* What a release says is tagged has its annotated tag at the commit of the
\* release, whichever requests gave up on the way, unless people touched the tag.
TaggedReleaseHasTag ==
    \A v \in Versions \ byHand :
        release[v].status = "TAGGED" =>
            tag[v] = [kind |-> "ANNOTATED", commit |-> release[v].commit]

\* A tag, ours or a person's, is never moved: it stays until a person deletes it.
TagsStay == [][\A v \in Versions : tag[v] # NoTag => tag'[v] \in {tag[v], NoTag}]_tag

\* The tasks of a release: beside those the caller named, exactly those that were
\* accepted when they were listed and whose accepted commit the tag will contain.
ReleaseTellsWhatShipped ==
    \A q \in Requests : req[q].at = "TAG" =>
        LET tasks == release[req[q].version].tasks
        IN  /\ \A t \in tasks \ req[q].asked :
                 t \in req[q].listed /\ req[q].commit \cap ({t} \X (1..MaxChanges)) # {}
            /\ \A t \in req[q].listed \ tasks : <<t, newest[t]>> \notin req[q].commit

\* The row of a release is about the tag and the tasks it says it is about.
ReleaseInvariant == TypeOK /\ TaggedReleaseHasTag /\ ReleaseTellsWhatShipped

\* What was published stays as it is: the row and the tag.
PublishedIsFixed == ReleaseIsFixed /\ TagsStay
=============================================================================
