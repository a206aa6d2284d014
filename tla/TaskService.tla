---------------------------- MODULE TaskService -----------------------------
(***************************************************************************)
(* What the pool promises to its callers: a task runs at most once, its    *)
(* output is handed out only after it has run, and between the return of   *)
(* Pause and the call of Resume nothing runs.                              *)
(***************************************************************************)
CONSTANT Tasks

VARIABLES phase,        \* "open", "paused", "closed"
          state         \* what has become of each task

Init == phase = "open" /\ state = [t \in Tasks |-> "new"]

Move(t, from, to) == /\ state[t] = from
                     /\ state' = [state EXCEPT ![t] = to]
                     /\ UNCHANGED phase

Accept(t)  == phase # "closed" /\ Move(t, "new", "accepted")
Begin(t)   == phase = "open" /\ Move(t, "accepted", "running")
Finish(t)  == phase = "open" /\ Move(t, "running", "finished")
Deliver(t) == Move(t, "finished", "delivered")

Quiet == \A t \in Tasks : state[t] # "running"

Pause  == phase = "open" /\ Quiet /\ phase' = "paused" /\ UNCHANGED state
Resume == phase = "paused" /\ phase' = "open" /\ UNCHANGED state
Close  == phase = "open" /\ Quiet /\ phase' = "closed" /\ UNCHANGED state

Next == \/ \E t \in Tasks : Accept(t) \/ Begin(t) \/ Finish(t) \/ Deliver(t)
        \/ Pause \/ Resume \/ Close

Spec == Init /\ [][Next]_<<phase, state>>
=============================================================================
