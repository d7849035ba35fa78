---------------------------- MODULE AgentSessions ----------------------------
(***************************************************************************)
(* The conversations with an agent program that the runs of one task       *)
(* continue: a run resumes the active session of its profile revision, or  *)
(* leaves one behind for the next.  Runs follow each other, but the runner *)
(* of a run that was given up may still be at work beside the next one.    *)
(* (src/internal/storage/agent_session.go, its callers in                  *)
(* src/internal/runner/runner.go and ClaimNextTask.)                       *)
(***************************************************************************)
EXTENDS Naturals

CONSTANTS
    Runs, Revisions,    \* runs of the task; revisions of its agent profile
    Sessions, Threads,  \* rows of agent_sessions; conversations of the program
    None

SessionsAssumption == None \notin Runs \cup Revisions \cup Sessions \cup Threads

VARIABLES
    revision,   \* the profile revision a claim uses now
    run,        \* rows of runs
    session,    \* rows of agent_sessions
    runner      \* where each runner is, and what the agent program told it

vars == <<revision, run, session, runner>>

Results   == {"SUCCEEDED", "FAILED", "TIMED_OUT", "CANCELLED"}
NoRow     == [status |-> "ABSENT", revision |-> None, session |-> None, resumed |-> FALSE]
NoSession == [status |-> "ABSENT", revision |-> None, thread |-> None, lastRun |-> None]
NoRunner  == [at |-> "NONE", thread |-> None, result |-> "NONE"]

RunRecord     == [status : Results \cup {"ABSENT", "ACTIVE", "LOST"}, resumed : BOOLEAN,
                  revision : Revisions \cup {None}, session : Sessions \cup {None}]
SessionRecord == [status : {"ABSENT", "ACTIVE", "INVALID"}, revision : Revisions \cup {None},
                  thread : Threads \cup {None}, lastRun : Runs \cup {None}]
RunnerRecord  == [at : {"NONE", "AGENT", "RECORD", "INVALIDATE", "FINISH", "GONE"},
                  thread : Threads \cup {None}, result : Results \cup {"NONE"}]

TypeOK ==
    /\ revision \in Revisions
    /\ run \in [Runs -> RunRecord]
    /\ session \in [Sessions -> SessionRecord]
    /\ runner \in [Runs -> RunnerRecord]

Init ==
    /\ revision \in Revisions
    /\ run = [r \in Runs |-> NoRow]
    /\ session = [s \in Sessions |-> NoSession]
    /\ runner = [r \in Runs |-> NoRunner]

Known(t) == \E s \in Sessions : session[s].status # "ABSENT" /\ session[s].thread = t

\* Mutant: a session of any revision is taken.
FindCompatibleAgentSession_AnyRevision ==
    {s \in Sessions : session[s].status = "ACTIVE"}

FindCompatibleAgentSession ==
    {s \in Sessions : session[s].status = "ACTIVE" /\ session[s].revision = revision}

\* One run of a task is active at a time.
ClaimNextTask(r) ==
    /\ run[r].status = "ABSENT"
    /\ \A q \in Runs : run[q].status # "ACTIVE"
    /\ LET found == FindCompatibleAgentSession
           fresh == found = {}
       IN  \E s \in IF fresh THEN {None} ELSE found :
             run' = [run EXCEPT ![r] = [status |-> "ACTIVE", revision |-> revision,
                                        session |-> s, resumed |-> ~fresh]]
    /\ runner' = [runner EXCEPT ![r].at = "AGENT"]
    /\ UNCHANGED <<revision, session>>

\* What the agent tells of its conversation when it ends: the thread of the
\* session, another one, or nothing, which stands for the thread it resumed.
AgentEnds(r) ==
    /\ runner[r].at = "AGENT"
    /\ \E result \in Results, t \in Threads \cup {None} :
         LET own == IF run[r].resumed THEN session[run[r].session].thread ELSE None
         IN  /\ t \in {None, own} \/ ~Known(t)
             /\ runner' = [runner EXCEPT ![r] = [at |-> "RECORD", result |-> result,
                               thread |-> IF t = None THEN own ELSE t]]
    /\ UNCHANGED <<revision, run, session>>

Continues(r) == [runner EXCEPT ![r].at =
    IF run[r].resumed /\ runner[r].result = "FAILED" THEN "INVALIDATE" ELSE "FINISH"]
\* Mutant: a refused record leaves the run without a result.
Refused_Unsaid(r) == [runner EXCEPT ![r].at = "FINISH", ![r].result = "NONE"]

Refused(r) == [runner EXCEPT ![r].at = "FINISH", ![r].result = "FAILED"]

\* A resumed session must be active still and its thread the same.
UpdateResumedSession(r) ==
    LET s == run[r].session
    IN  IF session[s].status = "ACTIVE" /\ session[s].thread = runner[r].thread
        THEN /\ session' = [session EXCEPT ![s].lastRun = r]
             /\ runner' = Continues(r)
             /\ UNCHANGED run
        ELSE runner' = Refused(r) /\ UNCHANGED <<session, run>>

\* Mutant: the thread is not unique.
CreateAgentSession_SharedThread(r) ==
    IF \E s \in Sessions : session[s].status = "ACTIVE" /\ session[s].revision = run[r].revision
    THEN runner' = Refused(r) /\ UNCHANGED <<session, run>>
    ELSE \E s \in Sessions :
           /\ session[s].status = "ABSENT"
           /\ session' = [session EXCEPT ![s] = [status |-> "ACTIVE", thread |-> runner[r].thread,
                              revision |-> run[r].revision, lastRun |-> r]]
           /\ run' = [run EXCEPT ![r].session = s]
           /\ runner' = Continues(r)

\* One active session for a revision, one session for a thread.
CreateAgentSession(r) ==
    IF \/ Known(runner[r].thread)
       \/ \E s \in Sessions : session[s].status = "ACTIVE" /\ session[s].revision = run[r].revision
    THEN runner' = Refused(r) /\ UNCHANGED <<session, run>>
    ELSE \E s \in Sessions :
           /\ session[s].status = "ABSENT"
           /\ session' = [session EXCEPT ![s] = [status |-> "ACTIVE", thread |-> runner[r].thread,
                              revision |-> run[r].revision, lastRun |-> r]]
           /\ run' = [run EXCEPT ![r].session = s]
           /\ runner' = Continues(r)

\* The state of the run is not looked at.
RecordAgentSession(r) ==
    /\ runner[r].at = "RECORD"
    /\ IF runner[r].thread = None
       THEN runner' = Continues(r) /\ UNCHANGED <<session, run>>
       ELSE IF run[r].session # None THEN UpdateResumedSession(r) ELSE CreateAgentSession(r)
    /\ UNCHANGED revision

\* Mutant: the session is invalidated only by the run that left it.
InvalidateAgentSessionForRun_Owner(r) ==
    /\ runner[r].at = "INVALIDATE"
    /\ session' = [session EXCEPT ![run[r].session].status =
                     IF @ = "ACTIVE" /\ ~run[r].resumed THEN "INVALID" ELSE @]
    /\ runner' = [runner EXCEPT ![r].at = "FINISH"]
    /\ UNCHANGED <<revision, run>>

InvalidateAgentSessionForRun(r) ==
    /\ runner[r].at = "INVALIDATE"
    /\ session' = [session EXCEPT ![run[r].session].status = IF @ = "ACTIVE" THEN "INVALID" ELSE @]
    /\ runner' = [runner EXCEPT ![r].at = "FINISH"]
    /\ UNCHANGED <<revision, run>>

Finish(r) ==
    /\ runner[r].at = "FINISH"
    /\ run' = [run EXCEPT ![r].status = IF @ = "ACTIVE" THEN runner[r].result ELSE @]
    /\ runner' = [runner EXCEPT ![r].at = "GONE"]
    /\ UNCHANGED <<revision, session>>

CrashRunner(r) ==
    /\ runner[r].at \notin {"NONE", "GONE"}
    /\ runner' = [runner EXCEPT ![r].at = "GONE"]
    /\ UNCHANGED <<revision, run, session>>

\* Given up by the recovery, its runner at work or not.
RecoverLost(r) ==
    /\ run[r].status = "ACTIVE"
    /\ run' = [run EXCEPT ![r].status = "LOST"]
    /\ UNCHANGED <<revision, session, runner>>

\* The owner edits the profile: later claims use another revision.
UpdateProfile ==
    /\ revision' \in Revisions \ {revision}
    /\ UNCHANGED <<run, session, runner>>

Next ==
    \/ \E r \in Runs :
        \/ ClaimNextTask(r) \/ AgentEnds(r) \/ RecordAgentSession(r)
        \/ InvalidateAgentSessionForRun(r) \/ Finish(r) \/ CrashRunner(r) \/ RecoverLost(r)
    \/ UpdateProfile

Spec == Init /\ [][Next]_vars

-----------------------------------------------------------------------------
(* Properties.                                                             *)

\* A run talks only in a session of its own profile revision, however often the
\* profile changed in between: sandbox and tools of another one never leak in.
SessionFitsRevision ==
    \A r \in Runs : run[r].session # None => session[run[r].session].revision = run[r].revision

\* A conversation belongs to one session for good: no two rows name it, and a
\* row keeps its thread and never comes back once it is invalid.
SessionsKeepThreads ==
    [][\A s \in Sessions :
        /\ session[s].status # "ABSENT" => session'[s].thread = session[s].thread
        /\ session[s].status = "INVALID" => session'[s].status = "INVALID"
        /\ \A q \in Sessions \ {s} : session'[s].thread = None
                                     \/ session'[s].thread # session'[q].thread]_vars

\* A resumed run that went wrong in the conversation it resumed leaves no active
\* session behind once its runner has reported it.
FailedResumeIsDropped ==
    \A r \in Runs :
        (/\ runner[r].at = "FINISH" /\ runner[r].result = "FAILED" /\ run[r].resumed
         /\ runner[r].thread = session[run[r].session].thread)
        => session[run[r].session].status = "INVALID"

\* The session a run resumes is one it may resume and one worth resuming.
SessionInvariant == TypeOK /\ SessionFitsRevision /\ FailedResumeIsDropped
=============================================================================
