------------------------------ MODULE TaskLease ------------------------------
(***************************************************************************)
(* What the store operations on tasks and runs promise to the rest of the  *)
(* program (src/internal/storage/run.go): a run that works on a task holds *)
(* it alone from the claim to its own end, and a run ends once.  The task  *)
(* passes from one run to the next only by being released first, and an    *)
(* ended run never comes back, whatever crashes, recovers or is commanded. *)
(***************************************************************************)
EXTENDS Naturals, FiniteSets

CONSTANTS Tasks, Runs, MaxWorkers, NoRun

VARIABLES
    holder,     \* the run at work on each task, or NoRun
    active,     \* the runs that are claimed and not ended
    ended       \* the runs that ended

vars == <<holder, active, ended>>

Init ==
    /\ holder = [t \in Tasks |-> NoRun]
    /\ active = {}
    /\ ended = {}

Fresh(r) ==
    /\ r \notin active \cup ended
    /\ Cardinality(active) < MaxWorkers
    /\ active' = active \cup {r}
    /\ UNCHANGED ended

\* Run r is claimed to work on task t.
Acquire(t, r) ==
    /\ holder[t] = NoRun
    /\ Fresh(r)
    /\ holder' = [holder EXCEPT ![t] = r]

\* Run r is claimed to triage or to discuss: it holds nothing.
Attend(r) ==
    /\ Fresh(r)
    /\ UNCHANGED holder

\* Run r ends, and with it its hold.
End(r) ==
    /\ r \in active
    /\ active' = active \ {r}
    /\ ended' = ended \cup {r}
    /\ holder' = [t \in Tasks |-> IF holder[t] = r THEN NoRun ELSE holder[t]]

Next == \E r \in Runs : Attend(r) \/ End(r) \/ \E t \in Tasks : Acquire(t, r)

Spec == Init /\ [][Next]_vars
=============================================================================
