--------------------------- MODULE WaitableQueue ----------------------------
(***************************************************************************)
(* WaitableQueue (priority_queue.hpp): a container under a mutex and a     *)
(* condition variable.  A critical section is one step; notify_one comes   *)
(* after the unlock and is a step of its own.                              *)
(***************************************************************************)
EXTENDS Sequences, SequencesExt

CONSTANT Fronts(_)      \* the positions that front() may return of a queue

VARIABLES queue,        \* m_queue
          asleep        \* threads waiting on m_cd

Push(x) == queue' = Append(queue, x) /\ UNCHANGED asleep

(* Mutant of NotifyOne: nobody is woken.                                   *)
NotifyOneLost == UNCHANGED <<queue, asleep>>

(* m_cd.notify_one.                                                        *)
NotifyOne == /\ \/ asleep = {} /\ UNCHANGED asleep
                \/ \E t \in asleep : asleep' = asleep \ {t}
             /\ UNCHANGED queue

(* The item at a front position is taken by a thread that is not asleep.   *)
(* A timed Pop that finds nothing returns -1 within a second and is called *)
(* again by its only caller: such a thread never counts as asleep.         *)
PopAt(k) == /\ k \in Fronts(queue)
            /\ queue' = RemoveAt(queue, k)
            /\ UNCHANGED asleep

(* The blocking Pop finds the queue empty and waits.                       *)
Wait(t) == /\ queue = <<>>
           /\ asleep' = asleep \cup {t}
           /\ UNCHANGED queue
=============================================================================
