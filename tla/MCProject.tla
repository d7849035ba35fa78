------------------------------ MODULE MCProject ------------------------------
(***************************************************************************)
(* What a project keeps for good: its releases, and the files of its state *)
(* with their backup.  One of the two is at work, the other rests in its   *)
(* initial state.                                                          *)
(***************************************************************************)
EXTENDS Publishing, TLC

CONSTANTS Default, Daemons, Runners, Nobody, MaxFacts, Faults

VARIABLES
    part,
    dir, main, wal, art, phase, runner, conn, pending, facts, daemonLock, metadata, cmd, archive

stateVars == <<dir, main, wal, art, phase, runner, conn, pending, facts, daemonLock, metadata,
               cmd, archive>>

State == INSTANCE ProjectState WITH None <- Nobody, lock <- daemonLock

ASSUME StateConstants == State!StateAssumption

ProjectInit ==
    /\ part \in {"release", "state"}
    /\ Init /\ State!Init

ProjectNext ==
    /\ UNCHANGED part
    /\ \/ part = "release" /\ Next /\ UNCHANGED stateVars
       \/ part = "state" /\ State!Next /\ UNCHANGED vars

ProjectSpec == ProjectInit /\ [][ProjectNext]_<<part, vars, stateVars>>

\* A release is made while two branches differ, or while a task changes more
\* than once on one branch of its own.
Scope ==
    \/ \A a \in DOMAIN newest : newest[a] <= 1
    \/ newest[Other] = 0 /\ \A b \in Branches \ {Default} : head[b] = {}

ProjectSymmetry == Permutations(Requests) \cup Permutations(Daemons)

\* What ProjectState says of the files.
StateInvariant == State!StateInvariant
=============================================================================
