----------------------------- MODULE ThreadPool -----------------------------
(***************************************************************************)
(* ThreadPool (threadpool.cpp), its WaitableQueue, and the Logger that its *)
(* tasks write to (logger.cpp), up to their destruction at exit: the pool  *)
(* first, then the logger (Singleton, atexit).                             *)
(*                                                                         *)
(* Three kinds of threads: the workers; the log thread; and the callers,   *)
(* one that adds tasks and waits for their output, and one (ctl) that      *)
(* pauses, resumes and resizes the pool, one call after the other, resumes *)
(* what it has paused before it calls anything else, and destroys it.      *)
(***************************************************************************)
EXTENDS Integers, Sequences, FiniteSets

CONSTANTS Threads,      \* threads that may ever be started
          First,        \* those the constructor starts
          Counts,       \* arguments of SetNumThreads
          Tasks,        \* tasks that may be added
          Priorities,   \* priorities of tasks (low, normal, high: 0 .. 2)
          MaxCalls      \* bound: calls of Pause and SetNumThreads

ADMIN == 3
ADMIN_STOP == 4

ASSUME PoolAssumption ==
  /\ IsFiniteSet(Threads)
  /\ First \subseteq Threads /\ First # {}
  /\ Counts \subseteq Nat \ {0}
  /\ Priorities \subseteq 0 .. 2
  /\ MaxCalls \in Nat
  /\ "free" \notin Threads /\ "Log End" \notin Tasks

VARIABLES
  m_tasks_pq, m_thread_num, m_resume, m_pause_ready,
  m_mutex,      \* the worker that holds it, or "free"
  pc, item,     \* per worker: where it is, what Pop returned
  task,         \* what has become of each task
  ctl, k, num,  \* the controlling thread: where it is, its loop counter, its argument
  calls,        \* calls of the controlling thread so far
  m_wq,         \* queue of the logger
  asleep,       \* threads waiting in the blocking Pop of m_wq
  logger,       \* where the log thread is
  line,         \* out of LogThreadFunc
  m_fout        \* lines written; <<>> at first

poolVars == <<m_tasks_pq, m_thread_num, m_resume, m_pause_ready, m_mutex>>
workVars == <<pc, item, task>>
ctlVars  == <<ctl, k, num, calls>>
logVars  == <<m_wq, asleep, logger, line, m_fout>>
vars     == <<poolVars, workVars, ctlVars, logVars>>

(* What the two queues hold.                                               *)
Job(t, p)     == [kind |-> "task", task |-> t, priority |-> p]
PauseTask     == [kind |-> "pause", priority |-> ADMIN]
Kill          == [kind |-> "kill", priority |-> ADMIN_STOP]
Nothing       == [kind |-> "none", priority |-> 0]
Items         == {Job(t, p) : t \in Tasks, p \in Priorities} \cup {PauseTask, Kill, Nothing}
Stop          == "Log End"

(* PQ::front with Compare: any of the items of highest priority.           *)
Highest(q) == {n \in DOMAIN q : \A x \in DOMAIN q : q[x].priority <= q[n].priority}

Oldest(q) == {n \in DOMAIN q : n = 1}

PQ == INSTANCE WaitableQueue WITH Fronts <- Highest, queue <- m_tasks_pq, asleep <- {}
LQ == INSTANCE WaitableQueue WITH Fronts <- Oldest, queue <- m_wq

(* ThreadPool::ThreadPool starts the first workers.                        *)
Init ==
  /\ m_tasks_pq = <<>> /\ m_thread_num = Cardinality(First)
  /\ m_resume = FALSE /\ m_pause_ready = 0 /\ m_mutex = "free"
  /\ pc = [w \in Threads |-> IF w \in First THEN "pop" ELSE "none"]
  /\ item = [w \in Threads |-> Nothing]
  /\ task = [t \in Tasks |-> "new"]
  /\ ctl = "idle" /\ k = 0 /\ num = 0 /\ calls = 0
  /\ m_wq = <<>> /\ asleep = {} /\ logger = "pop" /\ line = "none" /\ m_fout = <<>>

Goto(w, from, to) == pc[w] = from /\ pc' = [pc EXCEPT ![w] = to]

-----------------------------------------------------------------------------
(* Workers                                                                 *)

(* ThreadFunc: Pop and what Run of the item begins with.  The loop ends    *)
(* after a pill.                                                           *)
ThreadFunc(w) ==
  /\ pc[w] = "pop"
  /\ \E n \in DOMAIN m_tasks_pq :
       LET x == m_tasks_pq[n] IN
       /\ PQ!PopAt(n)
       /\ item' = [item EXCEPT ![w] = x]
       /\ pc' = [pc EXCEPT ![w] = CASE x.kind = "task"  -> "run"
                                    [] x.kind = "pause" -> "lock"
                                    [] x.kind = "kill"  -> "gone"]
       /\ task' = [t \in Tasks |-> IF x.kind = "task" /\ x.task = t
                                   THEN "running" ELSE task[t]]
  /\ UNCHANGED <<m_thread_num, m_resume, m_pause_ready, m_mutex, ctlVars, logVars>>

(* FutureFuncTPTask::Run calls m_func, which logs a line: Logger::Log.     *)
Run(w) ==
  /\ Goto(w, "run", "notify")
  /\ LQ!Push(item[w].task)
  /\ UNCHANGED <<poolVars, item, task, ctlVars, logger, line, m_fout>>

(* The notify_one of that Push, and output = the result of m_func.         *)
RunNotify(w) ==
  /\ Goto(w, "notify", "post")
  /\ LQ!NotifyOne
  /\ task' = [task EXCEPT ![item[w].task] = "computed"]
  /\ UNCHANGED <<poolVars, item, ctlVars, logger, line, m_fout>>

(* sem_post.                                                               *)
RunPost(w) ==
  /\ Goto(w, "post", "pop")
  /\ task' = [task EXCEPT ![item[w].task] = "posted"]
  /\ item' = [item EXCEPT ![w] = Nothing]
  /\ UNCHANGED <<poolVars, ctlVars, logVars>>

(* Mutant of PauseLock: the mutex is not taken.                            *)
PauseLockNone(w) ==
  /\ Goto(w, "lock", "test")
  /\ m_pause_ready' = m_pause_ready + 1
  /\ UNCHANGED <<m_tasks_pq, m_thread_num, m_resume, m_mutex, item, task, ctlVars, logVars>>

(* PauseTask: the lock and ++m_pause_ready.                                *)
PauseLock(w) ==
  /\ Goto(w, "lock", "test")
  /\ m_mutex = "free" /\ m_mutex' = w
  /\ m_pause_ready' = m_pause_ready + 1
  /\ UNCHANGED <<m_tasks_pq, m_thread_num, m_resume, item, task, ctlVars, logVars>>

(* m_cd.wait tests m_resume, which Resume writes without the mutex; with   *)
(* TRUE, --m_pause_ready and the unlock follow.                            *)
PauseTest(w) ==
  /\ pc[w] = "test"
  /\ \/ /\ m_resume
        /\ m_pause_ready' = m_pause_ready - 1
        /\ m_mutex' = "free"
        /\ pc' = [pc EXCEPT ![w] = "pop"]
        /\ item' = [item EXCEPT ![w] = Nothing]
     \/ /\ ~m_resume
        /\ pc' = [pc EXCEPT ![w] = "falling"]
        /\ UNCHANGED <<m_pause_ready, m_mutex, item>>
  /\ UNCHANGED <<m_tasks_pq, m_thread_num, m_resume, task, ctlVars, logVars>>

(* Only now is the worker a waiter of m_cd, and the mutex free.            *)
PauseSleep(w) ==
  /\ Goto(w, "falling", "asleep")
  /\ m_mutex' = "free"
  /\ UNCHANGED <<m_tasks_pq, m_thread_num, m_resume, m_pause_ready, item, task,
                 ctlVars, logVars>>

(* Mutant of PauseWake: a woken worker is counted again.                   *)
PauseWakeCounts(w) ==
  /\ Goto(w, "woken", "test")
  /\ m_mutex = "free" /\ m_mutex' = w
  /\ m_pause_ready' = m_pause_ready + 1
  /\ UNCHANGED <<m_tasks_pq, m_thread_num, m_resume, item, task, ctlVars, logVars>>

(* A woken waiter takes the mutex and tests again.                         *)
PauseWake(w) ==
  /\ Goto(w, "woken", "test")
  /\ m_mutex = "free" /\ m_mutex' = w
  /\ UNCHANGED <<m_tasks_pq, m_thread_num, m_resume, m_pause_ready, item, task,
                 ctlVars, logVars>>

Worker(w) == \/ ThreadFunc(w) \/ Run(w) \/ RunNotify(w) \/ RunPost(w)
             \/ PauseLock(w) \/ PauseTest(w) \/ PauseSleep(w) \/ PauseWake(w)

-----------------------------------------------------------------------------
(* The thread that adds tasks                                              *)

Destroying == {"pills", "join", "stop", "stopNotify", "stopJoin", "end"}

(* AddTask.  The notify_one of Push only shortens the second of a Pop.     *)
AddTask(t, p) ==
  /\ task[t] = "new" /\ ctl \notin Destroying
  /\ PQ!Push(Job(t, p))
  /\ task' = [task EXCEPT ![t] = "accepted"]
  /\ UNCHANGED <<m_thread_num, m_resume, m_pause_ready, m_mutex, pc, item, ctlVars, logVars>>

(* GetOutput: sem_wait.                                                    *)
GetOutput(t) ==
  /\ task[t] = "posted"
  /\ task' = [task EXCEPT ![t] = "delivered"]
  /\ UNCHANGED <<poolVars, pc, item, ctlVars, logVars>>

-----------------------------------------------------------------------------
(* The controlling thread                                                  *)

Call(from, to) == ctl = from /\ ctl' = to

Pause ==
  /\ Call("idle", "spin") /\ calls < MaxCalls
  /\ calls' = calls + 1
  /\ UNCHANGED <<poolVars, workVars, k, num, logVars>>

(* while(m_pause_ready != 0); m_resume = false.                            *)
PauseSpin ==
  /\ Call("spin", "pause") /\ m_pause_ready = 0
  /\ m_resume' = FALSE
  /\ k' = 0
  /\ UNCHANGED <<m_tasks_pq, m_thread_num, m_pause_ready, m_mutex, workVars, num, calls, logVars>>

(* One pause task per worker.                                              *)
PausePush ==
  /\ Call("pause", IF k + 1 < m_thread_num THEN "pause" ELSE "wait")
  /\ PQ!Push(PauseTask)
  /\ k' = k + 1
  /\ UNCHANGED <<m_thread_num, m_resume, m_pause_ready, m_mutex, workVars, num, calls, logVars>>

(* while(m_pause_ready < m_thread_num); Pause returns.                     *)
PauseReturn ==
  /\ Call("wait", "paused") /\ m_pause_ready >= m_thread_num
  /\ UNCHANGED <<poolVars, workVars, k, num, calls, logVars>>

(* Resume: m_resume = true ...                                             *)
Resume ==
  /\ Call("paused", "notify")
  /\ m_resume' = TRUE
  /\ UNCHANGED <<m_tasks_pq, m_thread_num, m_pause_ready, m_mutex, workVars, k, num, calls, logVars>>

(* Mutant of ResumeNotify: the waiters are not notified.                   *)
ResumeNotifyNone ==
  /\ Call("notify", "idle")
  /\ UNCHANGED <<poolVars, workVars, k, num, calls, logVars>>

(* ... and m_cd.notify_all: who is not yet a waiter is not woken.          *)
ResumeNotify ==
  /\ Call("notify", "idle")
  /\ pc' = [w \in Threads |-> IF pc[w] = "asleep" THEN "woken" ELSE pc[w]]
  /\ UNCHANGED <<poolVars, item, task, k, num, calls, logVars>>

SetNumThreads(n) ==
  /\ Call("idle", "resize") /\ calls < MaxCalls
  /\ n - m_thread_num <= Cardinality({w \in Threads : pc[w] = "none"})
  /\ calls' = calls + 1
  /\ num' = n
  /\ k' = m_thread_num
  /\ UNCHANGED <<poolVars, workVars, logVars>>

(* The loops of SetNumThreads: one thread more, one pill more.             *)
Grow(w) ==
  /\ Call("resize", "resize") /\ k < num
  /\ Goto(w, "none", "pop")
  /\ k' = k + 1
  /\ UNCHANGED <<poolVars, item, task, num, calls, logVars>>

(* Mutant of Shrink: the pill has the priority of a task.                  *)
ShrinkLow ==
  /\ Call("resize", "resize") /\ k > num
  /\ PQ!Push([Kill EXCEPT !.priority = 1])
  /\ k' = k - 1
  /\ UNCHANGED <<m_thread_num, m_resume, m_pause_ready, m_mutex, workVars, num, calls, logVars>>

Shrink ==
  /\ Call("resize", "resize") /\ k > num
  /\ PQ!Push(Kill)
  /\ k' = k - 1
  /\ UNCHANGED <<m_thread_num, m_resume, m_pause_ready, m_mutex, workVars, num, calls, logVars>>

Resized ==
  /\ Call("resize", "idle") /\ k = num
  /\ m_thread_num' = num
  /\ UNCHANGED <<m_tasks_pq, m_resume, m_pause_ready, m_mutex, workVars, k, num, calls, logVars>>

(* ~ThreadPool: m_thread_num pills, and a join of every thread.            *)
Destroy ==
  /\ Call("idle", "pills")
  /\ k' = 0
  /\ UNCHANGED <<poolVars, workVars, num, calls, logVars>>

DestroyPush ==
  /\ Call("pills", IF k + 1 < m_thread_num THEN "pills" ELSE "join")
  /\ PQ!Push(Kill)
  /\ k' = k + 1
  /\ UNCHANGED <<m_thread_num, m_resume, m_pause_ready, m_mutex, workVars, num, calls, logVars>>

(* Mutant of DestroyJoin: the threads are not joined.                      *)
DestroyJoinNone ==
  /\ Call("join", "stop")
  /\ UNCHANGED <<poolVars, workVars, k, num, calls, logVars>>

DestroyJoin ==
  /\ Call("join", "stop")
  /\ \A w \in Threads : pc[w] \in {"none", "gone"}
  /\ UNCHANGED <<poolVars, workVars, k, num, calls, logVars>>

(* ~Logger: the stop record, its notify_one, join and close.               *)
LoggerStop ==
  /\ Call("stop", "stopNotify")
  /\ LQ!Push(Stop)
  /\ UNCHANGED <<poolVars, workVars, k, num, calls, logger, line, m_fout>>

LoggerNotify ==
  /\ Call("stopNotify", "stopJoin")
  /\ LQ!NotifyOne
  /\ UNCHANGED <<poolVars, workVars, k, num, calls, logger, line, m_fout>>

LoggerClose ==
  /\ Call("stopJoin", "end") /\ logger = "gone"
  /\ UNCHANGED <<poolVars, workVars, k, num, calls, logVars>>

Returns == \/ PauseSpin \/ PausePush \/ PauseReturn \/ Resume \/ ResumeNotify
           \/ Resized \/ Shrink \/ \E w \in Threads : Grow(w)
           \/ DestroyPush \/ DestroyJoin \/ LoggerStop \/ LoggerNotify \/ LoggerClose

-----------------------------------------------------------------------------
(* The log thread                                                          *)

(* LogThreadFunc: the blocking Pop takes the oldest line or waits.         *)
LogPop ==
  /\ logger = "pop" /\ "log" \notin asleep
  /\ \/ /\ m_wq # <<>>
        /\ LQ!PopAt(1)
        /\ line' = Head(m_wq)
        /\ logger' = "run"
     \/ /\ LQ!Wait("log")
        /\ UNCHANGED <<line, logger>>
  /\ UNCHANGED <<poolVars, workVars, ctlVars, m_fout>>

(* LogTask::Run, and the test of IsStop.                                   *)
LogRun ==
  /\ logger = "run"
  /\ m_fout' = Append(m_fout, line)
  /\ logger' = IF line = Stop THEN "gone" ELSE "pop"
  /\ line' = "none"
  /\ UNCHANGED <<poolVars, workVars, ctlVars, m_wq, asleep>>

Next == \/ \E w \in Threads : Worker(w)
        \/ \E t \in Tasks : GetOutput(t) \/ \E p \in Priorities : AddTask(t, p)
        \/ Pause \/ (\E n \in Counts : SetNumThreads(n)) \/ Destroy \/ Returns
        \/ LogPop \/ LogRun

Spec == Init /\ [][Next]_vars

(* Threads go on, and what was called returns; nobody has to call.         *)
Fairness == /\ \A w \in Threads : WF_vars(Worker(w))
            /\ WF_vars(Returns)
            /\ \A t \in Tasks : WF_vars(GetOutput(t))
            /\ WF_vars(LogPop \/ LogRun)

FairSpec == Spec /\ Fairness

-----------------------------------------------------------------------------
(* Type invariant.                                                         *)
TypeOK ==
  /\ m_tasks_pq \in Seq(Items) /\ m_thread_num \in Nat /\ m_resume \in BOOLEAN
  /\ m_pause_ready \in 0 .. Cardinality(Threads)
  /\ m_mutex \in Threads \cup {"free"}
  /\ pc \in [Threads -> {"none", "pop", "run", "notify", "post", "lock", "test",
                        "falling", "asleep", "woken", "gone"}]
  /\ item \in [Threads -> Items]
  /\ task \in [Tasks -> {"new", "accepted", "running", "computed", "posted", "delivered"}]
  /\ ctl \in {"idle", "spin", "pause", "wait", "paused", "notify", "resize"} \cup Destroying
  /\ m_wq \in Seq(Tasks \cup {Stop}) /\ m_fout \in Seq(Tasks \cup {Stop})
  /\ asleep \subseteq {"log"} /\ logger \in {"pop", "run", "gone"}
  /\ line \in Tasks \cup {Stop, "none"}

Phase == CASE ctl = "paused"                               -> "paused"
           [] ctl \in {"stop", "stopNotify", "stopJoin", "end"} -> "closed"
           [] OTHER                                        -> "open"

State == [t \in Tasks |-> CASE task[t] \in {"running", "computed"} -> "running"
                            [] task[t] = "posted"                 -> "finished"
                            [] OTHER                              -> task[t]]

Service == INSTANCE TaskService WITH phase <- Phase, state <- State

(* Whatever the workers were doing and whatever pills of SetNumThreads are *)
(* still in the queue when Pause is called: once it has returned no task   *)
(* is running or begins, until Resume; every task runs at most once, and   *)
(* GetOutput returns after it has run (Pause, PauseTask, ThreadFunc,       *)
(* FutureFuncTPTask).                                                      *)
ImplementsTaskService == Service!Spec

(* Resume sets m_resume without the mutex and can miss a worker that has   *)
(* tested it and does not wait yet, but never two: the mutex lets only one *)
(* worker be at that point (PauseTask, Resume).                            *)
OneStraggler ==
  ctl = "idle" => Cardinality({w \in Threads : pc[w] \in {"falling", "asleep"}}) <= 1

(* When the log file is closed it ends with the stop record and holds the  *)
(* line of every task that has run, once (Logger::~Logger, LogThreadFunc). *)
LogComplete ==
  ctl = "end" =>
    /\ m_fout[Len(m_fout)] = Stop
    /\ \A t \in Tasks : Cardinality({n \in DOMAIN m_fout : m_fout[n] = t})
                         = IF task[t] \in {"posted", "delivered"} THEN 1 ELSE 0

(* A worker that Resume has missed.                                        *)
Missed == \E w \in Threads : pc[w] = "asleep" /\ ctl # "paused" /\ m_resume

(* Every task that is added gives its output, although Resume may leave a  *)
(* worker asleep: it runs unless that was the only worker, or the          *)
(* destructor has begun, whose pills overtake it (AddTask, ThreadFunc,     *)
(* Resume).                                                                *)
EveryTaskDelivered ==
  \A t \in Tasks : task[t] = "accepted" ~> \/ task[t] = "delivered"
                                           \/ ctl \in Destroying
                                           \/ m_thread_num = 1 /\ Missed

(* The destructors of pool and logger return, unless a worker that Resume  *)
(* has missed is still asleep (~ThreadPool, ~Logger).                      *)
DestructorsReturn ==
  ctl = "pills" ~> (ctl = "end" \/ Missed)
=============================================================================
