-------------------------------- MODULE RunLife --------------------------------
(***************************************************************************)
(* What the tables promise about one Run, whoever writes them: a Run goes  *)
(* forward through its phases, an outcome is either the one its runner     *)
(* froze or a failure nobody froze, and an ended Run never changes again.  *)
(***************************************************************************)
CONSTANTS Runs, Outcomes    \* Outcomes: what a runner can freeze

VARIABLES status, intent

vars == <<status, intent>>

Active == {"CLAIMED", "STARTING", "RUNNING", "FINALIZING"}

Init == /\ status = [r \in Runs |-> "ABSENT"]
        /\ intent = [r \in Runs |-> "NONE"]

Move(r, from, to) == /\ status[r] = from
                     /\ status' = [status EXCEPT ![r] = to]

Advance(r) == /\ \/ Move(r, "ABSENT", "CLAIMED")
                 \/ Move(r, "CLAIMED", "STARTING")
                 \/ Move(r, "STARTING", "RUNNING")
              /\ UNCHANGED intent

Freeze(r) == /\ Move(r, "RUNNING", "FINALIZING")
             /\ \E s \in Outcomes : intent' = [intent EXCEPT ![r] = s]

Complete(r) == /\ Move(r, "FINALIZING", intent[r])
               /\ UNCHANGED intent

GiveUp(r) == /\ \E s \in Active : Move(r, s, "FAILED") \/ Move(r, s, "LOST")
             /\ UNCHANGED intent

Next == \E r \in Runs : Advance(r) \/ Freeze(r) \/ Complete(r) \/ GiveUp(r)

Spec == Init /\ [][Next]_vars
=============================================================================
