----------------------------- MODULE Scheduler ------------------------------
(***************************************************************************)
(* The scheduler of the master (scheduler.cpp) and the AIs that use it     *)
(* (ai.cpp): one POSIX timer, the task it is armed for in m_currentTask,   *)
(* the other tasks in a queue ordered by deadline.  Every expiry starts a  *)
(* thread in ThreadFunc.                                                   *)
(*                                                                         *)
(* m_mutex protects m_currentTask and m_wq, so a critical section is one   *)
(* step; AddTask arms the timer after it has released the mutex, from      *)
(* whatever m_currentTask then holds, which is a step of its own for the   *)
(* read and another one for timer_settime.                                 *)
(***************************************************************************)
EXTENDS Integers

CONSTANTS AIs,          \* the AIs of one run
          None,         \* nullptr
          Delta,        \* m_timeToCheck of every AI
          MaxPerforms,  \* bound: times that an AI runs
          MaxTime       \* bound: how long the clock runs with nothing armed

ASSUME SchedulerAssumption ==
  /\ None \notin AIs
  /\ Delta \in [AIs -> Nat]
  /\ MaxPerforms \in Nat \ {0}
  /\ MaxTime \in Nat \ {0}

(* Calls of AddTask: number n of AI a.                                     *)
Calls == AIs \X (0 .. MaxPerforms)

Time == Nat \ {0}       \* 0: the timer is not armed

Item == [task : AIs, call : 0 .. MaxPerforms, time : Time]

VARIABLES
  now,            \* the clock
  m_currentTask,  \* an item; its time stays when the task becomes nullptr
  m_wq,           \* the items in the queue
  armed,          \* when the timer expires
  pending,        \* an expiry has not been turned into a thread yet
  threads,        \* threads at the start of ThreadFunc
  ai,             \* every AI: none, adding, scheduled, running, deleted
  performs,       \* how often it has run
  deadline,       \* the time AddTask has computed for it (local)
  tail            \* calls of AddTask behind the mutex: 0 or the time read

schedVars == <<m_currentTask, m_wq>>
timerVars == <<armed, pending, threads>>
aiVars    == <<ai, performs, deadline>>
vars      == <<now, schedVars, timerVars, aiVars, tail>>

Idle  == -1             \* tail of a call that is not behind the mutex
Unset == 0              \* tail of a call that has not read the time yet

Current == {i \in {m_currentTask} : i.task # None}
Items   == Current \cup m_wq

(* The scheduler has run before or not: the time of an empty m_currentTask *)
(* is never read before an AddTask has set it.                             *)
Init ==
  /\ now = 1
  /\ m_currentTask = [task |-> None, call |-> 0, time |-> 1]
  /\ m_wq = {}
  /\ armed = 0 /\ pending = FALSE /\ threads = 0
  /\ ai = [a \in AIs |-> "none"]
  /\ performs = [a \in AIs |-> 0]
  /\ deadline = [a \in AIs |-> 0]
  /\ tail = [k \in Calls |-> Idle]

-----------------------------------------------------------------------------
(* AI (ai.cpp)                                                             *)

(* Mutant of AddTask: the delta has the wrong sign.                        *)
AddTaskPast(a) ==
  /\ deadline' = [deadline EXCEPT ![a] = now - Delta[a]]
  /\ ai' = [ai EXCEPT ![a] = "adding"]
  /\ UNCHANGED <<now, schedVars, timerVars, performs, tail>>

(* AddTask up to the mutex: the deadline is computed from the clock.       *)
AddTask(a) ==
  /\ deadline' = [deadline EXCEPT ![a] = now + Delta[a]]
  /\ ai' = [ai EXCEPT ![a] = "adding"]
  /\ UNCHANGED <<now, schedVars, timerVars, performs, tail>>

NewAI(a) == ai[a] = "none" /\ AddTask(a)

(* Perform: the function returned false.                                   *)
PerformAgain(a) == ai[a] = "running" /\ performs[a] < MaxPerforms /\ AddTask(a)

(* Mutant of PerformLast: the AI is kept and can be added again.           *)
PerformLastKept(a) ==
  /\ ai[a] = "running"
  /\ ai' = [ai EXCEPT ![a] = "none"]
  /\ UNCHANGED <<now, schedVars, timerVars, performs, deadline, tail>>

(* Perform: the function returned true, delete this.                       *)
PerformLast(a) ==
  /\ ai[a] = "running"
  /\ ai' = [ai EXCEPT ![a] = "deleted"]
  /\ UNCHANGED <<now, schedVars, timerVars, performs, deadline, tail>>

-----------------------------------------------------------------------------
(* Scheduler (scheduler.cpp)                                               *)

(* Mutant of Insert: the comparison is the wrong way round.                *)
InsertSwapped(a) ==
  LET new == [task |-> a, call |-> performs[a], time |-> deadline[a]] IN
  /\ ai[a] = "adding"
  /\ \/ m_currentTask.task = None
        /\ m_currentTask' = new /\ UNCHANGED m_wq
     \/ m_currentTask.task # None /\ m_currentTask.time >= new.time
        /\ m_wq' = m_wq \cup {new} /\ UNCHANGED m_currentTask
     \/ m_currentTask.task # None /\ m_currentTask.time < new.time
        /\ m_wq' = m_wq \cup {m_currentTask} /\ m_currentTask' = new
  /\ ai' = [ai EXCEPT ![a] = "scheduled"]
  /\ deadline' = [deadline EXCEPT ![a] = 0]
  /\ tail' = [tail EXCEPT ![<<a, performs[a]>>] = Unset]
  /\ UNCHANGED <<now, timerVars, performs>>

(* Mutant of Insert: the task that is replaced is not pushed.              *)
InsertForgets(a) ==
  LET new == [task |-> a, call |-> performs[a], time |-> deadline[a]] IN
  /\ ai[a] = "adding"
  /\ \/ m_currentTask.task # None /\ m_currentTask.time < new.time
        /\ m_wq' = m_wq \cup {new} /\ UNCHANGED m_currentTask
     \/ ~(m_currentTask.task # None /\ m_currentTask.time < new.time)
        /\ m_currentTask' = new /\ UNCHANGED m_wq
  /\ ai' = [ai EXCEPT ![a] = "scheduled"]
  /\ deadline' = [deadline EXCEPT ![a] = 0]
  /\ tail' = [tail EXCEPT ![<<a, performs[a]>>] = Unset]
  /\ UNCHANGED <<now, timerVars, performs>>

(* The critical section of AddTask.                                        *)
Insert(a) ==
  LET new == [task |-> a, call |-> performs[a], time |-> deadline[a]] IN
  /\ ai[a] = "adding"
  /\ \/ m_currentTask.task = None
        /\ m_currentTask' = new /\ UNCHANGED m_wq
     \/ m_currentTask.task # None /\ m_currentTask.time < new.time
        /\ m_wq' = m_wq \cup {new} /\ UNCHANGED m_currentTask
     \/ m_currentTask.task # None /\ m_currentTask.time >= new.time
        /\ m_wq' = m_wq \cup {m_currentTask} /\ m_currentTask' = new
  /\ ai' = [ai EXCEPT ![a] = "scheduled"]
  /\ deadline' = [deadline EXCEPT ![a] = 0]
  /\ tail' = [tail EXCEPT ![<<a, performs[a]>>] = Unset]
  /\ UNCHANGED <<now, timerVars, performs>>

(* Another thread may be writing m_currentTask.                            *)
Writing == threads > 0 \/ \E a \in AIs : ai[a] = "adding"

(* SetTime of AddTask, the read of m_currentTask.second: seconds and       *)
(* nanoseconds may come from two different items.                          *)
ReadTime(k) ==
  /\ tail[k] = Unset
  /\ \E t \in {m_currentTask.time} \cup {x \in 1 .. MaxTime : Writing} :
       tail' = [tail EXCEPT ![k] = t]
  /\ UNCHANGED <<now, schedVars, timerVars, aiVars>>

(* timer_settime.  What becomes of an expiry that is still pending is not  *)
(* specified.                                                              *)
SetTime(t) ==
  /\ armed' = t
  /\ pending' \in {pending, FALSE}

(* Mutant of ArmTimer: timer_settime is repeated after a success.          *)
ArmTimerRepeats(k) ==
  /\ tail[k] > 0
  /\ SetTime(tail[k])
  /\ UNCHANGED <<now, schedVars, threads, aiVars, tail>>

(* SetTime of AddTask, the call of timer_settime.                          *)
ArmTimer(k) ==
  /\ tail[k] > 0
  /\ SetTime(tail[k])
  /\ tail' = [tail EXCEPT ![k] = Idle]
  /\ UNCHANGED <<now, schedVars, threads, aiVars>>

Earliest(S) == {i \in S : \A j \in S : i.time <= j.time}

(* Mutant of ThreadFunc: the timer is not armed for the next task.         *)
ThreadFuncNoRearm ==
  /\ threads > 0 /\ threads' = threads - 1
  /\ \/ m_currentTask.task = None /\ UNCHANGED <<schedVars, armed, pending, ai, performs>>
     \/ /\ m_currentTask.task # None
        /\ ai' = [ai EXCEPT ![m_currentTask.task] = "running"]
        /\ performs' = [performs EXCEPT ![m_currentTask.task] = @ + 1]
        /\ \/ \E i \in Earliest(m_wq) : m_currentTask' = i /\ m_wq' = m_wq \ {i}
           \/ m_wq = {} /\ m_currentTask' = [m_currentTask EXCEPT !.task = None]
                        /\ UNCHANGED m_wq
        /\ UNCHANGED <<armed, pending>>
  /\ UNCHANGED <<now, deadline, tail>>

(* ThreadFunc up to the unlock: the current task will be executed and the  *)
(* earliest one of the queue takes its place.                              *)
ThreadFunc ==
  /\ threads > 0 /\ threads' = threads - 1
  /\ \/ m_currentTask.task = None /\ UNCHANGED <<schedVars, armed, pending, ai, performs>>
     \/ /\ m_currentTask.task # None
        /\ ai' = [ai EXCEPT ![m_currentTask.task] = "running"]
        /\ performs' = [performs EXCEPT ![m_currentTask.task] = @ + 1]
        /\ \/ \E i \in Earliest(m_wq) :
                m_currentTask' = i /\ m_wq' = m_wq \ {i} /\ SetTime(i.time)
           \/ m_wq = {} /\ m_currentTask' = [m_currentTask EXCEPT !.task = None]
                        /\ UNCHANGED <<m_wq, armed, pending>>
  /\ UNCHANGED <<now, deadline, tail>>

-----------------------------------------------------------------------------
(* The POSIX timer (timer_create with SIGEV_THREAD)                        *)

(* An expiry while another one is pending is an overrun of that one.       *)
Expire ==
  /\ armed # 0 /\ armed <= now
  /\ armed' = 0 /\ pending' = TRUE
  /\ UNCHANGED <<now, schedVars, threads, aiVars, tail>>

StartThread ==
  /\ pending
  /\ pending' = FALSE /\ threads' = threads + 1
  /\ UNCHANGED <<now, schedVars, armed, aiVars, tail>>

Tick ==
  /\ now < MaxTime \/ now < armed
  /\ now' = now + 1
  /\ UNCHANGED <<schedVars, timerVars, aiVars, tail>>

-----------------------------------------------------------------------------
Perform(a) == PerformAgain(a) \/ PerformLast(a)

SetTimeTail(k) == ReadTime(k) \/ ArmTimer(k)

Next ==
  \/ \E a \in AIs : NewAI(a) \/ Insert(a) \/ Perform(a)
  \/ \E k \in Calls : SetTimeTail(k)
  \/ ThreadFunc \/ Expire \/ StartThread \/ Tick

Spec == Init /\ [][Next]_vars

(* Time passes, the timer works and every thread goes on; nobody has to    *)
(* create an AI.                                                           *)
Fairness ==
  /\ \A a \in AIs : WF_vars(Insert(a)) /\ WF_vars(Perform(a))
  /\ \A k \in Calls : WF_vars(SetTimeTail(k))
  /\ WF_vars(ThreadFunc) /\ WF_vars(Expire) /\ WF_vars(StartThread) /\ WF_vars(Tick)

FairSpec == Spec /\ Fairness

-----------------------------------------------------------------------------
(* Type invariant.                                                         *)
TypeOK ==
  /\ now \in Time
  /\ m_currentTask \in [task : AIs \cup {None}, call : 0 .. MaxPerforms, time : Time]
  /\ m_wq \subseteq Item
  /\ armed \in Nat /\ pending \in BOOLEAN /\ threads \in Nat
  /\ ai \in [AIs -> {"none", "adding", "scheduled", "running", "deleted"}]
  /\ performs \in [AIs -> 0 .. MaxPerforms]
  /\ deadline \in [AIs -> Nat]
  /\ \A a \in AIs : ai[a] = "adding" => deadline[a] \in Time
  /\ tail \in [Calls -> Nat \cup {Idle}]

(* A wake-up is on its way whenever a task waits: the timer is armed, or   *)
(* an expiry is under way, or an AddTask has still to arm the timer.  So   *)
(* arming the timer outside the mutex loses no task (AddTask, ThreadFunc). *)
NoLostTask ==
  Items # {} => \/ armed # 0 \/ pending \/ threads > 0
                \/ \E k \in Calls : tail[k] # Idle

(* m_currentTask, the task that the next expiry executes, is due no later  *)
(* than any task of m_wq, and there is none only if m_wq is empty: Insert  *)
(* of AddTask and ThreadFunc keep the two in order whatever the order of   *)
(* arrival.  Nothing is said of the time the timer is armed for.           *)
EarliestFirst ==
  /\ m_currentTask.task = None => m_wq = {}
  /\ \A i \in m_wq : m_currentTask.time <= i.time

(* An AI is in the scheduler exactly while it is scheduled, once: the AI   *)
(* that Perform has deleted is never executed through a stale AITask.      *)
OnePlace ==
  /\ \A a \in AIs : ai[a] = "scheduled" <=> \E i \in Items : i.task = a
  /\ \A i, j \in Items : i.task = j.task => i = j
  /\ Current \cap m_wq = {}

(* The scheduler as its users see it: before its first insertion an AI is  *)
(* idle, and one that adds itself again is still running.                  *)
phase == [a \in AIs |-> CASE ai[a] = "none" -> "idle"
                          [] ai[a] = "adding" ->
                               (IF performs[a] = 0 THEN "idle" ELSE "running")
                          [] OTHER -> ai[a]]

Timers == INSTANCE TimerService

(* Each execution of an AI answers one AddTask (scheduler.cpp, ai.cpp).    *)
ImplementsTimerService == Timers!Spec

(* Every AI that is added is executed: a poll is never forgotten.          *)
EveryTaskRuns == \A a \in AIs : ai[a] = "adding" ~> ai[a] = "running"
=============================================================================
