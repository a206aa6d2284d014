-------------------------- MODULE SchedulerProofs ---------------------------
(***************************************************************************)
(* Proofs about the scheduler, for any number of AIs, any intervals and    *)
(* any number of executions.                                               *)
(*                                                                         *)
(* NoLostTask needs EarliestFirst: a thread that finds no current task     *)
(* does nothing, which is right only because the queue is then empty.  The *)
(* refinement needs OnePlace: the task a thread takes is that of an AI     *)
(* that is scheduled, and Counts, which tells an AI that is added for the  *)
(* first time from one that adds itself again.                             *)
(***************************************************************************)
EXTENDS Scheduler, TLAPS

(* How often an AI has run.                                                *)
Counts ==
  \A a \in AIs : /\ ai[a] = "none" => performs[a] = 0
                 /\ ai[a] \in {"adding", "scheduled"} => performs[a] < MaxPerforms
                 /\ ai[a] = "running" => performs[a] > 0

Inv == TypeOK /\ Counts /\ NoLostTask /\ EarliestFirst /\ OnePlace

-----------------------------------------------------------------------------
LEMMA InitInv == Init => Inv
<1> SUFFICES ASSUME Init PROVE Inv
  OBVIOUS
<1> USE SchedulerAssumption DEF Init
<1>1. TypeOK
  <2>1. now \in Time /\ armed \in Nat /\ threads \in Nat /\ m_wq \subseteq Item
    BY DEF Time
  <2>2. m_currentTask \in [task : AIs \cup {None}, call : 0 .. MaxPerforms, time : Time]
    BY DEF Time
  <2>3. /\ ai \in [AIs -> {"none", "adding", "scheduled", "running", "deleted"}]
        /\ performs \in [AIs -> 0 .. MaxPerforms]
        /\ deadline \in [AIs -> Nat]
        /\ \A a \in AIs : ai[a] # "adding"
    OBVIOUS
  <2>4. tail \in [Calls -> Nat \cup {Idle}]
    OBVIOUS
  <2>5. pending \in BOOLEAN
    BY Zenon
  <2> HIDE DEF Init
  <2> QED BY <2>1, <2>2, <2>3, <2>4, <2>5 DEF TypeOK
<1>2. Items = {} /\ Current = {}
  BY DEF Items, Current
<1>3. Counts /\ EarliestFirst
  BY DEF Counts, EarliestFirst
<1>4. NoLostTask /\ OnePlace
  BY <1>2 DEF NoLostTask, OnePlace
<1> QED BY <1>1, <1>3, <1>4 DEF Inv

(* NewAI and PerformAgain: the deadline is computed.                       *)
LEMMA AddTaskInv ==
  ASSUME Inv, NEW a \in AIs, NewAI(a) \/ PerformAgain(a)
  PROVE  Inv'
<1>1. /\ ai[a] \in {"none", "running"} /\ performs[a] < MaxPerforms
      /\ deadline' = [deadline EXCEPT ![a] = now + Delta[a]]
      /\ ai' = [ai EXCEPT ![a] = "adding"]
      /\ UNCHANGED <<now, schedVars, timerVars, performs, tail>>
  BY SchedulerAssumption DEF NewAI, PerformAgain, AddTask, Inv, Counts
<1>2. now + Delta[a] \in Time /\ now + Delta[a] \in Nat
  BY SchedulerAssumption DEF Inv, TypeOK, Time
<1>3. TypeOK'
  BY <1>1, <1>2 DEF Inv, TypeOK, schedVars, timerVars
<1>4. Counts'
  BY <1>1 DEF Inv, TypeOK, Counts
<1>5. Current' = Current /\ Items' = Items
  BY <1>1 DEF Items, Current, schedVars
<1>6. NoLostTask' /\ EarliestFirst'
  BY <1>1, <1>5 DEF Inv, NoLostTask, EarliestFirst, schedVars, timerVars
<1>7. OnePlace'
  BY <1>1, <1>5 DEF Inv, TypeOK, OnePlace, schedVars
<1> QED BY <1>3, <1>4, <1>6, <1>7 DEF Inv

(* Perform ends an AI.                                                     *)
LEMMA PerformLastInv ==
  ASSUME Inv, NEW a \in AIs, PerformLast(a)
  PROVE  Inv'
<1>1. /\ ai[a] = "running" /\ ai' = [ai EXCEPT ![a] = "deleted"]
      /\ UNCHANGED <<now, schedVars, timerVars, performs, deadline, tail>>
  BY DEF PerformLast
<1>2. TypeOK' /\ Counts'
  BY <1>1 DEF Inv, TypeOK, Counts, schedVars, timerVars
<1>3. Current' = Current /\ Items' = Items
  BY <1>1 DEF Items, Current, schedVars
<1>4. NoLostTask' /\ EarliestFirst'
  BY <1>1, <1>3 DEF Inv, NoLostTask, EarliestFirst, schedVars, timerVars
<1>5. OnePlace'
  BY <1>1, <1>3 DEF Inv, TypeOK, OnePlace, schedVars
<1> QED BY <1>2, <1>4, <1>5 DEF Inv

(* The critical section of AddTask.                                        *)
LEMMA InsertInv ==
  ASSUME Inv, NEW a \in AIs, Insert(a)
  PROVE  Inv'
<1> DEFINE new == [task |-> a, call |-> performs[a], time |-> deadline[a]]
<1>1. /\ ai[a] = "adding"
      /\ ai' = [ai EXCEPT ![a] = "scheduled"]
      /\ deadline' = [deadline EXCEPT ![a] = 0]
      /\ tail' = [tail EXCEPT ![<<a, performs[a]>>] = Unset]
      /\ UNCHANGED <<now, timerVars, performs>>
  BY DEF Insert
<1>2. \/ /\ m_currentTask.task = None
         /\ m_currentTask' = new /\ m_wq' = m_wq
      \/ /\ m_currentTask.task # None /\ m_currentTask.time < new.time
         /\ m_wq' = m_wq \cup {new} /\ m_currentTask' = m_currentTask
      \/ /\ m_currentTask.task # None /\ m_currentTask.time >= new.time
         /\ m_wq' = m_wq \cup {m_currentTask} /\ m_currentTask' = new
  BY DEF Insert
<1>3. new \in Item /\ new.task = a /\ new.time \in Time
  BY <1>1 DEF Inv, TypeOK, Item
<1>4. \A i \in Items : i.task # a
  BY <1>1 DEF Inv, OnePlace
<1> HIDE DEF new
<1>5. m_currentTask.task # None => m_currentTask \in Item
  BY DEF Inv, TypeOK, Item
<1>6. new.task # None
  BY <1>3, SchedulerAssumption
<1>7. TypeOK'
  <2>1. m_currentTask' \in [task : AIs \cup {None}, call : 0 .. MaxPerforms, time : Time]
        /\ m_wq' \subseteq Item
    BY <1>2, <1>3, <1>5 DEF Inv, TypeOK, Item
  <2>2. <<a, performs[a]>> \in Calls
    BY DEF Inv, TypeOK, Calls
  <2>3. tail' \in [Calls -> Nat \cup {Idle}]
    BY <1>1, <2>2 DEF Inv, TypeOK, Unset
  <2> QED BY <1>1, <2>1, <2>3 DEF Inv, TypeOK, timerVars
<1>8. Counts'
  BY <1>1 DEF Inv, TypeOK, Counts
<1>9. NoLostTask'
  <2>1. <<a, performs[a]>> \in Calls
    BY DEF Inv, TypeOK, Calls
  <2>2. tail'[<<a, performs[a]>>] = Unset /\ Unset # Idle
    BY <1>1, <2>1 DEF Inv, TypeOK, Unset, Idle
  <2> QED BY <2>1, <2>2 DEF NoLostTask
<1>10. EarliestFirst'
  <2>1. \A i \in m_wq : i.time \in Nat
    BY DEF Inv, TypeOK, Item, Time
  <2>2. m_currentTask.time \in Nat /\ new.time \in Nat
    BY <1>3 DEF Inv, TypeOK, Time
  <2>3. CASE m_currentTask.task = None
    BY <1>2, <1>6, <2>3 DEF Inv, EarliestFirst
  <2>4. CASE m_currentTask.task # None
    BY <1>2, <1>6, <2>1, <2>2, <2>4 DEF Inv, EarliestFirst
  <2> QED BY <2>3, <2>4
<1>11. Items' = Items \cup {new} /\ Current' \cap m_wq' = {}
  <2>1. new \notin Items
    BY <1>3, <1>4
  <2>2. CASE m_currentTask.task = None
    BY <1>2, <1>6, <2>1, <2>2 DEF Items, Current, Inv, OnePlace
  <2>3. CASE m_currentTask.task # None
    BY <1>2, <1>6, <2>1, <2>3 DEF Items, Current, Inv, OnePlace
  <2> QED BY <2>2, <2>3
<1>12. OnePlace'
  <2>1. \A b \in AIs : ai'[b] = "scheduled" <=> \E i \in Items' : i.task = b
    BY <1>1, <1>3, <1>11 DEF Inv, TypeOK, OnePlace
  <2>2. \A i, j \in Items' : i.task = j.task => i = j
    BY <1>3, <1>4, <1>11 DEF Inv, OnePlace
  <2> QED BY <1>11, <2>1, <2>2 DEF OnePlace
<1> QED BY <1>7, <1>8, <1>9, <1>10, <1>12 DEF Inv

(* Behind the mutex, the timer and the clock: the items do not change.     *)
LEMMA TimerInv ==
  ASSUME Inv,
         (\E k \in Calls : SetTimeTail(k)) \/ Expire \/ StartThread \/ Tick
  PROVE  Inv'
<1>1. UNCHANGED <<m_currentTask, m_wq, ai, performs, deadline>>
  BY DEF SetTimeTail, ReadTime, ArmTimer, Expire, StartThread, Tick, schedVars, aiVars
<1>2. Current' = Current /\ Items' = Items
  BY <1>1 DEF Items, Current
<1>3. TypeOK' /\ NoLostTask'
  <2>1. ASSUME NEW k \in Calls, ReadTime(k)
        PROVE  TypeOK' /\ NoLostTask'
    <3>1. PICK t \in Time : tail' = [tail EXCEPT ![k] = t]
      <4>1. PICK t \in {m_currentTask.time} \cup {x \in 1 .. MaxTime : Writing} :
              tail' = [tail EXCEPT ![k] = t]
        BY <2>1 DEF ReadTime
      <4>2. m_currentTask.time \in Time
        BY DEF Inv, TypeOK
      <4>3. \A x \in 1 .. MaxTime : x \in Time
        BY SchedulerAssumption DEF Time
      <4> QED BY <4>1, <4>2, <4>3
    <3>2. tail'[k] # Idle
      BY <3>1 DEF Inv, TypeOK, Time, Idle
    <3>3. UNCHANGED <<now, armed, pending, threads>>
      BY <2>1 DEF ReadTime, timerVars
    <3> QED BY <1>1, <3>1, <3>2, <3>3 DEF Inv, TypeOK, NoLostTask, Time
  <2>2. ASSUME NEW k \in Calls, ArmTimer(k)
        PROVE  TypeOK' /\ NoLostTask'
    <3>1. /\ tail[k] > 0 /\ tail[k] \in Nat /\ armed' = tail[k]
          /\ pending' \in BOOLEAN /\ tail' = [tail EXCEPT ![k] = Idle]
          /\ UNCHANGED <<now, threads>>
      <4>1. /\ tail[k] > 0 /\ armed' = tail[k] /\ pending' \in {pending, FALSE}
            /\ tail' = [tail EXCEPT ![k] = Idle] /\ UNCHANGED <<now, threads>>
        BY <2>2 DEF ArmTimer, SetTime
      <4>2. tail[k] \in Nat \cup {Idle} /\ pending \in BOOLEAN
        BY DEF Inv, TypeOK
      <4>3. tail[k] \in Nat
        BY <4>1, <4>2 DEF Idle
      <4>4. pending' \in BOOLEAN
        BY <4>1, <4>2
      <4> QED BY <4>1, <4>3, <4>4
    <3> QED BY <1>1, <3>1 DEF Inv, TypeOK, NoLostTask
  <2>3. CASE Expire \/ StartThread \/ Tick
    <3>1. now' \in Time /\ armed' \in Nat /\ threads' \in Nat /\ tail' = tail
      BY <2>3 DEF Expire, StartThread, Tick, Inv, TypeOK, Time, timerVars
    <3>2. pending' \in BOOLEAN
      <4>1. pending' = TRUE \/ pending' = FALSE \/ pending' = pending
        BY <2>3, Zenon DEF Expire, StartThread, Tick, timerVars
      <4>2. pending \in BOOLEAN
        BY DEF Inv, TypeOK
      <4> QED BY <4>1, <4>2, Zenon
    <3>3. TypeOK'
      BY <1>1, <3>1, <3>2 DEF Inv, TypeOK
    <3>4. armed # 0 \/ pending \/ threads > 0 => armed' # 0 \/ pending' \/ threads' > 0
      BY <2>3 DEF Expire, StartThread, Tick, Inv, TypeOK, timerVars
    <3> QED BY <1>2, <3>1, <3>3, <3>4 DEF Inv, NoLostTask
  <2> QED BY <2>1, <2>2, <2>3 DEF SetTimeTail
<1>4. Counts' /\ EarliestFirst'
  BY <1>1 DEF Inv, Counts, EarliestFirst
<1>5. OnePlace'
  BY <1>1, <1>2 DEF Inv, OnePlace
<1> QED BY <1>3, <1>4, <1>5 DEF Inv

(* ThreadFunc takes the current task, of an AI that is scheduled.          *)
LEMMA ThreadFuncInv ==
  ASSUME Inv, ThreadFunc
  PROVE  Inv'
<1> DEFINE a == m_currentTask.task
<1>1. /\ threads > 0 /\ threads' = threads - 1 /\ threads' \in Nat
      /\ UNCHANGED <<now, deadline, tail>>
  BY DEF ThreadFunc, Inv, TypeOK
<1>2. CASE a = None
  <2>1. UNCHANGED <<m_currentTask, m_wq, armed, pending, ai, performs>>
    BY <1>2 DEF ThreadFunc, schedVars
  <2>2. Items = {} /\ Current = {} /\ Items' = {} /\ Current' = {}
    BY <1>2, <2>1 DEF Inv, EarliestFirst, Items, Current
  <2>3. TypeOK'
    BY <1>1, <2>1 DEF Inv, TypeOK
  <2>4. Counts' /\ EarliestFirst'
    BY <2>1 DEF Inv, Counts, EarliestFirst
  <2>5. NoLostTask' /\ OnePlace'
    BY <2>1, <2>2 DEF Inv, NoLostTask, OnePlace
  <2> QED BY <2>3, <2>4, <2>5 DEF Inv
<1>3. CASE a # None
  <2>1. /\ ai' = [ai EXCEPT ![a] = "running"]
        /\ performs' = [performs EXCEPT ![a] = @ + 1]
    BY <1>3 DEF ThreadFunc
  <2>2. a \in AIs /\ m_currentTask \in Items /\ m_currentTask \in Item
    BY <1>3 DEF Inv, TypeOK, Items, Current, Item
  <2>3. ai[a] = "scheduled" /\ performs[a] < MaxPerforms /\ performs[a] \in Nat
    <3>1. ai[a] = "scheduled"
      BY <2>2 DEF Inv, OnePlace
    <3> QED BY <2>2, <3>1 DEF Inv, TypeOK, Counts
  <2>4. \A i \in m_wq : i.task # a /\ i.task \in AIs /\ i.task # None
    BY <1>3, <2>2, SchedulerAssumption DEF Inv, TypeOK, OnePlace, Items, Current, Item
  <2>5. /\ Items = {m_currentTask} \cup m_wq
        /\ \A b \in AIs \ {a} : ai[b] = "scheduled" <=> \E i \in m_wq : i.task = b
    BY <1>3 DEF Inv, OnePlace, Items, Current
  <2> HIDE DEF a
  <2>6. /\ ai' \in [AIs -> {"none", "adding", "scheduled", "running", "deleted"}]
        /\ performs' \in [AIs -> 0 .. MaxPerforms]
    BY <2>1, <2>2, <2>3, SchedulerAssumption DEF Inv, TypeOK
  <2>7. Counts'
    <3> SUFFICES ASSUME NEW b \in AIs
                 PROVE  /\ ai'[b] = "none" => performs'[b] = 0
                        /\ ai'[b] \in {"adding", "scheduled"} => performs'[b] < MaxPerforms
                        /\ ai'[b] = "running" => performs'[b] > 0
      BY DEF Counts
    <3>1. CASE b = a
      BY <2>1, <2>2, <2>3, <3>1 DEF Inv, TypeOK
    <3>2. CASE b # a
      BY <2>1, <3>2 DEF Inv, TypeOK, Counts
    <3> QED BY <3>1, <3>2
  <2>8. ASSUME Items' = m_wq
        PROVE  /\ \A b \in AIs : ai'[b] = "scheduled" <=> \E i \in Items' : i.task = b
               /\ \A i, j \in Items' : i.task = j.task => i = j
    <3>1. ASSUME NEW b \in AIs
          PROVE  ai'[b] = "scheduled" <=> \E i \in m_wq : i.task = b
      <4>1. CASE b = a
        BY <2>1, <2>2, <2>4, <4>1 DEF Inv, TypeOK
      <4>2. CASE b # a
        BY <2>1, <2>5, <4>2 DEF Inv, TypeOK
      <4> QED BY <4>1, <4>2
    <3>2. \A i, j \in m_wq : i.task = j.task => i = j
      BY <2>5 DEF Inv, OnePlace
    <3> QED BY <2>8, <3>1, <3>2
  <2>9. CASE \E i \in Earliest(m_wq) :
               m_currentTask' = i /\ m_wq' = m_wq \ {i} /\ SetTime(i.time)
    <3>1. PICK i \in Earliest(m_wq) :
            m_currentTask' = i /\ m_wq' = m_wq \ {i} /\ SetTime(i.time)
      BY <2>9
    <3>2. /\ i \in m_wq /\ i \in Item /\ i.time \in Nat \ {0} /\ i.task # None
          /\ \A j \in m_wq : i.time <= j.time
      BY <2>4, <3>1 DEF Earliest, Inv, TypeOK, Item, Time
    <3>3. Current' = {i} /\ Items' = m_wq /\ Current' \cap m_wq' = {}
      BY <3>1, <3>2 DEF Items, Current
    <3>4. armed' = i.time /\ pending' \in BOOLEAN
      <4>1. armed' = i.time /\ pending' \in {pending, FALSE}
        BY <3>1 DEF SetTime
      <4> QED BY <4>1 DEF Inv, TypeOK
    <3>5. TypeOK'
      <4>1. m_currentTask' \in [task : AIs \cup {None}, call : 0 .. MaxPerforms, time : Time]
            /\ m_wq' \subseteq Item
        BY <3>1, <3>2 DEF Inv, TypeOK, Item
      <4>2. \A b \in AIs : ai'[b] = "adding" => deadline'[b] \in Time
        BY <1>1, <2>1 DEF Inv, TypeOK
      <4> QED BY <1>1, <2>6, <3>2, <3>4, <4>1, <4>2 DEF Inv, TypeOK
    <3>6. NoLostTask' /\ EarliestFirst'
      BY <3>1, <3>2, <3>4 DEF NoLostTask, EarliestFirst
    <3>7. OnePlace'
      BY <2>8, <3>3 DEF OnePlace
    <3> QED BY <2>7, <3>5, <3>6, <3>7 DEF Inv
  <2>10. CASE /\ m_wq = {} /\ m_currentTask' = [m_currentTask EXCEPT !.task = None]
              /\ UNCHANGED <<m_wq, armed, pending>>
    <3>1. /\ m_currentTask' \in [task : AIs \cup {None}, call : 0 .. MaxPerforms, time : Time]
          /\ m_currentTask'.task = None
      BY <2>10 DEF Inv, TypeOK
    <3>2. Current' = {} /\ Items' = {} /\ Items' = m_wq
      BY <2>10, <3>1 DEF Items, Current
    <3>3. TypeOK'
      <4>1. \A b \in AIs : ai'[b] = "adding" => deadline'[b] \in Time
        BY <1>1, <2>1 DEF Inv, TypeOK
      <4> QED BY <1>1, <2>6, <2>10, <3>1, <4>1 DEF Inv, TypeOK
    <3>4. NoLostTask' /\ EarliestFirst'
      BY <2>10, <3>2 DEF NoLostTask, EarliestFirst
    <3>5. OnePlace'
      BY <2>8, <3>2 DEF OnePlace
    <3> QED BY <2>7, <3>3, <3>4, <3>5 DEF Inv
  <2>11. \/ \E i \in Earliest(m_wq) :
              m_currentTask' = i /\ m_wq' = m_wq \ {i} /\ SetTime(i.time)
         \/ /\ m_wq = {} /\ m_currentTask' = [m_currentTask EXCEPT !.task = None]
            /\ UNCHANGED <<m_wq, armed, pending>>
    BY <1>3 DEF ThreadFunc, a
  <2> QED BY <2>9, <2>10, <2>11
<1> QED BY <1>2, <1>3

(* Inv is inductive.                                                       *)
LEMMA NextInv == Inv /\ [Next]_vars => Inv'
<1> SUFFICES ASSUME Inv, [Next]_vars PROVE Inv'
  OBVIOUS
<1>1. CASE \E a \in AIs : NewAI(a) \/ Insert(a) \/ Perform(a)
  BY <1>1, AddTaskInv, InsertInv, PerformLastInv DEF Perform
<1>2. CASE (\E k \in Calls : SetTimeTail(k)) \/ Expire \/ StartThread \/ Tick
  BY <1>2, TimerInv
<1>3. CASE ThreadFunc
  BY <1>3, ThreadFuncInv
<1>4. CASE UNCHANGED vars
  BY <1>4 DEF Inv, TypeOK, Counts, NoLostTask, EarliestFirst, OnePlace, Items, Current,
              vars, schedVars, timerVars, aiVars
<1> QED BY <1>1, <1>2, <1>3, <1>4 DEF Next

(* The queue, the timer and the states of the AIs keep their types         *)
(* (Scheduler, AI), for any number of AIs and any intervals.               *)
THEOREM SchedulerTypeTheorem == Spec => []TypeOK
<1>1. Inv => TypeOK
  BY DEF Inv
<1> QED BY <1>1, InitInv, NextInv, PTL DEF Spec

(* The scheduler never forgets a task: a wake-up is on its way whenever    *)
(* one waits, for any number of AIs and any interleaving of AddTask,       *)
(* SetTime and ThreadFunc.                                                 *)
THEOREM SchedulerTheorem == Spec => []NoLostTask
<1>1. Inv => NoLostTask
  BY DEF Inv
<1> QED BY <1>1, InitInv, NextInv, PTL DEF Spec

(* m_currentTask, the task that the next expiry executes, is due no later  *)
(* than any task of m_wq, whatever order the tasks arrive in (AddTask,     *)
(* ThreadFunc).                                                            *)
THEOREM EarliestTheorem == Spec => []EarliestFirst
<1>1. Inv => EarliestFirst
  BY DEF Inv
<1> QED BY <1>1, InitInv, NextInv, PTL DEF Spec

(* An AI is in m_wq or m_currentTask exactly while it is scheduled, and    *)
(* once: no AITask outlives the AI that Perform deletes.                   *)
THEOREM OnePlaceTheorem == Spec => []OnePlace
<1>1. Inv => OnePlace
  BY DEF Inv
<1> QED BY <1>1, InitInv, NextInv, PTL DEF Spec

-----------------------------------------------------------------------------
LEMMA RefineInit == Init => Timers!Init
BY DEF Init, Timers!Init, phase

(* Every step is a step of TimerService or changes no phase.               *)
LEMMA RefineNext == Inv /\ [Next]_vars => [Timers!Next]_phase
<1> SUFFICES ASSUME Inv, [Next]_vars PROVE Timers!Next \/ phase' = phase
  BY DEF Inv
<1> DEFINE PhaseOf(s, n) == CASE s = "none" -> "idle"
                              [] s = "adding" -> (IF n = 0 THEN "idle" ELSE "running")
                              [] OTHER -> s
<1>1. phase = [b \in AIs |-> PhaseOf(ai[b], performs[b])]
      /\ phase' = [b \in AIs |-> PhaseOf(ai'[b], performs'[b])]
  BY DEF phase
<1>2. /\ \A n : PhaseOf("none", n) = "idle"
      /\ PhaseOf("adding", 0) = "idle"
      /\ \A n : n # 0 => PhaseOf("adding", n) = "running"
      /\ \A n : PhaseOf("scheduled", n) = "scheduled"
      /\ \A n : PhaseOf("running", n) = "running"
      /\ \A n : PhaseOf("deleted", n) = "deleted"
  OBVIOUS
<1> HIDE DEF PhaseOf
<1>3. ai \in [AIs -> {"none", "adding", "scheduled", "running", "deleted"}]
      /\ performs \in [AIs -> 0 .. MaxPerforms]
  BY DEF Inv, TypeOK
<1>4. CASE UNCHANGED <<ai, performs>>
  BY <1>1, <1>4
<1>5. ASSUME NEW a \in AIs, NewAI(a)
      PROVE  phase' = phase
  <2>1. ai[a] = "none" /\ performs[a] = 0 /\ performs' = performs
        /\ ai' = [ai EXCEPT ![a] = "adding"]
    BY <1>5 DEF NewAI, AddTask, Inv, Counts
  <2>2. \A b \in AIs : PhaseOf(ai'[b], performs'[b]) = PhaseOf(ai[b], performs[b])
    BY <1>2, <1>3, <2>1
  <2> QED BY <1>1, <2>2
<1>6. ASSUME NEW a \in AIs, PerformAgain(a)
      PROVE  phase' = phase
  <2>1. ai[a] = "running" /\ performs[a] # 0 /\ performs' = performs
        /\ ai' = [ai EXCEPT ![a] = "adding"]
    BY <1>6 DEF PerformAgain, AddTask, Inv, Counts, TypeOK
  <2>2. \A b \in AIs : PhaseOf(ai'[b], performs'[b]) = PhaseOf(ai[b], performs[b])
    BY <1>2, <1>3, <2>1
  <2> QED BY <1>1, <2>2
<1>7. ASSUME NEW a \in AIs, NEW s, ai' = [ai EXCEPT ![a] = s],
             \A b \in AIs \ {a} : performs'[b] = performs[b],
             \A n : PhaseOf(s, n) = s
      PROVE  phase' = [phase EXCEPT ![a] = s]
  <2>1. \A b \in AIs : PhaseOf(ai'[b], performs'[b]) =
                         IF b = a THEN s ELSE PhaseOf(ai[b], performs[b])
    BY <1>3, <1>7
  <2> QED BY <1>1, <2>1
<1>8. ASSUME NEW a \in AIs, Insert(a)
      PROVE  Timers!Next
  <2>1. ai[a] = "adding" /\ performs' = performs /\ ai' = [ai EXCEPT ![a] = "scheduled"]
    BY <1>8 DEF Insert
  <2>2. phase[a] \in {"idle", "running"}
    BY <1>1, <1>2, <2>1
  <2>3. phase' = [phase EXCEPT ![a] = "scheduled"]
    BY <1>2, <1>7, <2>1
  <2> QED BY <2>2, <2>3 DEF Timers!Next, Timers!Schedule
<1>9. ASSUME NEW a \in AIs, PerformLast(a)
      PROVE  Timers!Next
  <2>1. ai[a] = "running" /\ performs' = performs /\ ai' = [ai EXCEPT ![a] = "deleted"]
    BY <1>9 DEF PerformLast
  <2>2. phase[a] = "running"
    BY <1>1, <1>2, <2>1
  <2>3. phase' = [phase EXCEPT ![a] = "deleted"]
    BY <1>2, <1>7, <2>1
  <2> QED BY <2>2, <2>3 DEF Timers!Next, Timers!Delete
<1>10. CASE ThreadFunc /\ m_currentTask.task # None
  <2> DEFINE a == m_currentTask.task
  <2>1. /\ ai' = [ai EXCEPT ![a] = "running"]
        /\ performs' = [performs EXCEPT ![a] = @ + 1]
    BY <1>10 DEF ThreadFunc
  <2>2. a \in AIs /\ ai[a] = "scheduled"
    BY <1>10 DEF Inv, TypeOK, OnePlace, Items, Current
  <2>3. phase[a] = "scheduled"
    BY <1>1, <1>2, <2>2
  <2> HIDE DEF a
  <2>4. phase' = [phase EXCEPT ![a] = "running"]
    <3>1. \A b \in AIs \ {a} : performs'[b] = performs[b]
      BY <1>3, <2>1
    <3> QED BY <1>2, <1>7, <2>1, <2>2, <3>1
  <2> QED BY <2>2, <2>3, <2>4 DEF Timers!Next, Timers!Run
<1>11. CASE ThreadFunc /\ m_currentTask.task = None
  BY <1>4, <1>11 DEF ThreadFunc
<1>12. CASE \/ \E k \in Calls : SetTimeTail(k)
            \/ Expire \/ StartThread \/ Tick \/ UNCHANGED vars
  <2>1. UNCHANGED <<ai, performs>>
    BY <1>12 DEF SetTimeTail, ReadTime, ArmTimer, Expire, StartThread, Tick, vars, aiVars
  <2> QED BY <1>4, <2>1
<1> QED BY <1>5, <1>6, <1>8, <1>9, <1>10, <1>11, <1>12 DEF Next, Perform

(* An AI runs once for every AddTask and never after it deleted itself     *)
(* (Scheduler::ThreadFunc, AI::Perform): the scheduler implements          *)
(* TimerService, for any number of AIs.                                    *)
THEOREM TimerServiceTheorem == Spec => ImplementsTimerService
BY RefineInit, RefineNext, InitInv, NextInv, PTL
   DEF Spec, ImplementsTimerService, Timers!Spec
=============================================================================
