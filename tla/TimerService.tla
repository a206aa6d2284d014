---------------------------- MODULE TimerService ----------------------------
(***************************************************************************)
(* What the scheduler promises to its users, the AIs: an AI that is        *)
(* scheduled runs once for every time it was scheduled, and one that has   *)
(* deleted itself never runs again.  This is the view IotDrive has of the  *)
(* scheduler.                                                              *)
(***************************************************************************)
CONSTANT AIs

VARIABLE phase

Phases == {"idle", "scheduled", "running", "deleted"}

Init == phase = [a \in AIs |-> "idle"]

(* new AI, or an AI whose function returned false.                         *)
Schedule(a) == /\ phase[a] \in {"idle", "running"}
               /\ phase' = [phase EXCEPT ![a] = "scheduled"]

Run(a) == /\ phase[a] = "scheduled"
          /\ phase' = [phase EXCEPT ![a] = "running"]

Delete(a) == /\ phase[a] = "running"
             /\ phase' = [phase EXCEPT ![a] = "deleted"]

Next == \E a \in AIs : Schedule(a) \/ Run(a) \/ Delete(a)

Spec == Init /\ [][Next]_phase
=============================================================================
