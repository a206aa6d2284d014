-------------------------- MODULE ThreadPoolProofs --------------------------
(***************************************************************************)
(* Proofs about the thread pool and the logger, for any number of threads, *)
(* tasks, priorities and calls.                                            *)
(***************************************************************************)
EXTENDS ThreadPool, FiniteSetTheorems, SequenceTheorems, TLAPS

(* Where the items of a kind are in a queue.                               *)
Places(q, kind) == {n \in DOMAIN q : q[n].kind = kind}

Working == {"run", "notify", "post"}
Live    == {w \in Threads : pc[w] \notin {"none", "gone"}}
Ready   == {w \in Threads : pc[w] \in {"test", "falling", "asleep", "woken"}}
Halted  == {w \in Threads : pc[w] \in {"lock", "test", "falling", "asleep", "woken"}}

(* Every task is in one place: in the queue while it is accepted, with one *)
(* worker while it runs.                                                   *)
InQueue ==
  /\ \A n \in DOMAIN m_tasks_pq : m_tasks_pq[n].kind \in {"task", "pause", "kill"}
  /\ \A n \in Places(m_tasks_pq, "task") : task[m_tasks_pq[n].task] = "accepted"
  /\ \A n, x \in Places(m_tasks_pq, "task") :
       m_tasks_pq[n].task = m_tasks_pq[x].task => n = x

AtWorker ==
  /\ \A w \in Threads : pc[w] \in Working =>
       /\ item[w].kind = "task"
       /\ task[item[w].task] = IF pc[w] = "post" THEN "computed" ELSE "running"
  /\ \A w, v \in Threads :
       pc[w] \in Working /\ pc[v] \in Working /\ item[w].task = item[v].task => w = v
  /\ \A t \in Tasks : task[t] \in {"running", "computed"} =>
       \E w \in Threads : pc[w] \in Working /\ item[w].task = t

(* The mutex excludes, and m_pause_ready counts the workers that have      *)
(* passed ++m_pause_ready.                                                 *)
Gate ==
  /\ \A w \in Threads : pc[w] \in {"test", "falling"} => m_mutex = w
  /\ m_pause_ready = Cardinality(Ready)

(* Every pill stands for a worker too many; k counts what a loop has done. *)
Workforce ==
  CASE ctl = "resize" -> k
    [] ctl = "pills"  -> m_thread_num - k
    [] ctl \in Destroying \ {"pills"} -> 0
    [] OTHER -> m_thread_num

Counters ==
  /\ m_thread_num \in Nat \ {0} /\ k \in Nat
  /\ ctl = "resize" => num \in Nat \ {0}
  /\ ctl \in {"pause", "pills"} => k < m_thread_num
  /\ ctl = "wait" => k = m_thread_num

LiveCount == Cardinality(Live) = Cardinality(Places(m_tasks_pq, "kill")) + Workforce

(* While Pause is called its tasks are in the queue or hold a worker, and  *)
(* they hold one only when every pill is gone.                             *)
Pausing ==
  /\ ctl \in {"pause", "wait"} =>
       /\ Cardinality(Places(m_tasks_pq, "pause")) + Cardinality(Halted) = k
       /\ Halted # {} => Places(m_tasks_pq, "kill") = {}
  /\ ctl \notin {"pause", "wait"} =>
       Places(m_tasks_pq, "pause") = {} /\ Halted = Ready
  /\ ctl \in {"pause", "wait", "paused"} => ~m_resume
  /\ ctl \notin {"pause", "wait", "paused"} => m_resume \/ Ready = {}
  /\ ctl = "paused" => Live = Ready
  /\ ctl \in {"stop", "stopNotify", "stopJoin", "end"} => Live = {}

Straggler ==
  ctl \notin {"pause", "wait", "paused", "notify"} =>
    \A w, v \in Threads :
      pc[w] \in {"falling", "asleep"} /\ pc[v] \in {"falling", "asleep"} => w = v

(* All the lines there are, in the order in which they are written.        *)
Lines == m_fout \o (IF logger = "run" THEN <<line>> ELSE <<>>) \o m_wq

Logged(t) == \/ task[t] \in {"computed", "posted", "delivered"}
             \/ \E w \in Threads : pc[w] = "notify" /\ item[w].task = t

Stopped == ctl \in {"stopNotify", "stopJoin", "end"}

Log ==
  /\ logger = "run" => line \in Tasks \cup {Stop}
  /\ \A t \in Tasks : Logged(t) <=> \E n \in DOMAIN Lines : Lines[n] = t
  /\ \A n, x \in DOMAIN Lines : Lines[n] = Lines[x] => n = x
  /\ \A n \in DOMAIN Lines : Lines[n] = Stop => Stopped /\ n = Len(Lines)
  /\ Stopped => Lines # <<>> /\ Lines[Len(Lines)] = Stop
  /\ logger = "gone" => m_fout # <<>> /\ m_fout[Len(m_fout)] = Stop
  /\ ctl = "end" => logger = "gone"

Inv == /\ TypeOK /\ InQueue /\ AtWorker /\ Gate /\ Counters /\ LiveCount
       /\ Pausing /\ Straggler /\ Log

-----------------------------------------------------------------------------
(* The queue                                                               *)

(* What the items of the queue have.                                       *)
LEMMA ItemFields ==
  /\ Nothing \in Items /\ PauseTask \in Items /\ Kill \in Items
  /\ PauseTask.kind = "pause" /\ Kill.kind = "kill"
  /\ \A t \in Tasks, p \in Priorities :
       Job(t, p) \in Items /\ Job(t, p).kind = "task" /\ Job(t, p).task = t
  /\ \A x \in Items :
       /\ x.kind = "task" => x.task \in Tasks
       /\ x.kind = "pause" => x.priority = 3
       /\ x.kind = "kill" => x.priority = 4
BY DEF Items, Job, PauseTask, Kill, Nothing, ADMIN, ADMIN_STOP

Rest(q, n) == SubSeq(q, 1, n - 1) \o SubSeq(q, n + 1, Len(q))

Skip(n, i) == IF i < n THEN i ELSE i + 1

(* A sequence without its nth element.                                     *)
LEMMA RestElements ==
  ASSUME NEW S, NEW q \in Seq(S), NEW n \in DOMAIN q
  PROVE  /\ Rest(q, n) \in Seq(S)
         /\ Len(Rest(q, n)) = Len(q) - 1
         /\ \A i \in DOMAIN Rest(q, n) :
              Skip(n, i) \in DOMAIN q /\ Skip(n, i) # n /\ Rest(q, n)[i] = q[Skip(n, i)]
<1> DEFINE a == SubSeq(q, 1, n - 1)
           b == SubSeq(q, n + 1, Len(q))
<1>1. Len(q) \in Nat /\ n \in 1 .. Len(q) /\ DOMAIN q = 1 .. Len(q)
  BY LenProperties
<1>2. a \in Seq(S) /\ Len(a) = n - 1 /\ \A i \in 1 .. (n - 1) : a[i] = q[i]
  <2>1. 1 \in 1 .. (Len(q) + 1) /\ n - 1 \in 1 - 1 .. Len(q)
    BY <1>1
  <2> QED BY <1>1, <2>1, SubSeqProperties
<1>3. b \in Seq(S) /\ Len(b) = Len(q) - n /\ \A i \in 1 .. (Len(q) - n) : b[i] = q[n + i]
  <2>1. n + 1 \in 1 .. (Len(q) + 1) /\ Len(q) \in (n + 1) - 1 .. Len(q)
    BY <1>1
  <2> QED BY <1>1, <2>1, SubSeqProperties
<1> HIDE DEF a, b
<1>4. /\ a \o b \in Seq(S) /\ Len(a \o b) = Len(q) - 1
      /\ \A i \in 1 .. (Len(q) - 1) :
           (a \o b)[i] = IF i <= n - 1 THEN a[i] ELSE b[i - (n - 1)]
  <2>1. /\ a \o b \in Seq(S) /\ Len(a \o b) = Len(a) + Len(b)
        /\ \A i \in 1 .. Len(a) + Len(b) :
             (a \o b)[i] = IF i <= Len(a) THEN a[i] ELSE b[i - Len(a)]
    BY <1>2, <1>3, ConcatProperties
  <2>2. Len(a) + Len(b) = Len(q) - 1
    BY <1>1, <1>2, <1>3
  <2> QED BY <1>2, <2>1, <2>2
<1>5. Rest(q, n) = a \o b
  BY DEF Rest, a, b
<1>6. DOMAIN (a \o b) = 1 .. (Len(q) - 1)
  BY <1>4, LenProperties
<1>7. ASSUME NEW i \in 1 .. (Len(q) - 1)
      PROVE  Skip(n, i) \in DOMAIN q /\ Skip(n, i) # n /\ (a \o b)[i] = q[Skip(n, i)]
  <2>1. CASE i < n
    BY <1>1, <1>2, <1>4, <2>1 DEF Skip
  <2>2. CASE ~(i < n)
    <3>1. i - (n - 1) \in 1 .. (Len(q) - n) /\ n + (i - (n - 1)) = i + 1
      BY <1>1, <2>2
    <3>2. (a \o b)[i] = b[i - (n - 1)]
      BY <1>1, <1>4, <2>2
    <3> QED BY <1>1, <1>3, <2>2, <3>1, <3>2 DEF Skip
  <2> QED BY <2>1, <2>2
<1> QED BY <1>4, <1>5, <1>6, <1>7

(* Skip is a bijection between the places of the rest and the other places *)
(* of the sequence.                                                        *)
LEMMA SkipBijection ==
  ASSUME NEW q \in Seq(Items), NEW n \in DOMAIN q
  PROVE  /\ \A i, j \in DOMAIN Rest(q, n) : Skip(n, i) = Skip(n, j) => i = j
         /\ \A m \in DOMAIN q \ {n} : \E i \in DOMAIN Rest(q, n) : Skip(n, i) = m
<1>1. Len(q) \in Nat /\ n \in 1 .. Len(q) /\ DOMAIN q = 1 .. Len(q)
  BY LenProperties
<1>2. DOMAIN Rest(q, n) = 1 .. (Len(q) - 1)
  BY RestElements, LenProperties
<1>3. \A i, j \in DOMAIN Rest(q, n) : Skip(n, i) = Skip(n, j) => i = j
  BY <1>1, <1>2 DEF Skip
<1>4. ASSUME NEW m \in DOMAIN q \ {n}
      PROVE  \E i \in DOMAIN Rest(q, n) : Skip(n, i) = m
  <2>1. CASE m < n
    <3>1. m \in DOMAIN Rest(q, n) /\ Skip(n, m) = m
      BY <1>1, <1>2, <2>1 DEF Skip
    <3> QED BY <3>1
  <2>2. CASE ~(m < n)
    <3>1. m - 1 \in DOMAIN Rest(q, n) /\ Skip(n, m - 1) = m
      BY <1>1, <1>2, <2>2 DEF Skip
    <3> QED BY <3>1
  <2> QED BY <2>1, <2>2
<1> QED BY <1>3, <1>4

(* The places of a kind are finitely many.                                 *)
LEMMA PlacesFinite ==
  ASSUME NEW q \in Seq(Items), NEW kind
  PROVE  IsFiniteSet(Places(q, kind)) /\ Cardinality(Places(q, kind)) \in Nat
<1>1. DOMAIN q = 1 .. Len(q) /\ Len(q) \in Nat
  BY LenProperties
<1>2. IsFiniteSet(1 .. Len(q))
  BY <1>1, FS_Interval
<1>3. Places(q, kind) \in SUBSET (1 .. Len(q))
  BY <1>1 DEF Places
<1>4. IsFiniteSet(Places(q, kind))
  BY <1>2, <1>3, FS_Subset
<1> QED BY <1>4, FS_CardinalityType

(* Push.                                                                   *)
LEMMA PlacesPush ==
  ASSUME NEW q \in Seq(Items), NEW x \in Items, NEW kind
  PROVE  /\ Places(Append(q, x), kind) =
              Places(q, kind) \cup (IF x.kind = kind THEN {Len(q) + 1} ELSE {})
         /\ Cardinality(Places(Append(q, x), kind)) =
              Cardinality(Places(q, kind)) + (IF x.kind = kind THEN 1 ELSE 0)
<1>1. /\ Len(q) \in Nat /\ DOMAIN q = 1 .. Len(q)
      /\ DOMAIN Append(q, x) = 1 .. (Len(q) + 1)
      /\ \A n \in 1 .. Len(q) : Append(q, x)[n] = q[n]
      /\ Append(q, x)[Len(q) + 1] = x
  BY AppendProperties, LenProperties
<1>2. Places(Append(q, x), kind) =
        Places(q, kind) \cup (IF x.kind = kind THEN {Len(q) + 1} ELSE {})
  BY <1>1 DEF Places
<1>3. Len(q) + 1 \notin Places(q, kind)
  BY <1>1 DEF Places
<1>4. IsFiniteSet(Places(q, kind)) /\ Cardinality(Places(q, kind)) \in Nat
  BY PlacesFinite
<1>5. CASE x.kind = kind
  <2>1. Cardinality(Places(q, kind) \cup {Len(q) + 1}) = Cardinality(Places(q, kind)) + 1
    BY <1>3, <1>4, FS_AddElement
  <2> QED BY <1>2, <1>5, <2>1
<1>6. CASE x.kind # kind
  <2>1. Places(Append(q, x), kind) = Places(q, kind)
    BY <1>2, <1>6
  <2> QED BY <1>2, <1>4, <1>6, <2>1
<1> QED BY <1>2, <1>5, <1>6

(* Push of another kind.                                                   *)
LEMMA PlacesKept ==
  ASSUME NEW q \in Seq(Items), NEW x \in Items, NEW kind, x.kind # kind
  PROVE  Places(Append(q, x), kind) = Places(q, kind)
<1>1. Places(Append(q, x), kind) =
        Places(q, kind) \cup (IF x.kind = kind THEN {Len(q) + 1} ELSE {})
  BY PlacesPush
<1> QED BY <1>1

(* Pop.                                                                    *)
LEMMA PlacesPop ==
  ASSUME NEW q \in Seq(Items), NEW n \in DOMAIN q, NEW kind
  PROVE  /\ Cardinality(Places(Rest(q, n), kind)) =
              Cardinality(Places(q, kind)) - (IF q[n].kind = kind THEN 1 ELSE 0)
         /\ Places(q, kind) = {} => Places(Rest(q, n), kind) = {}
<1> DEFINE r == Rest(q, n)
           P == Places(q, kind) \ {n}
           R == Places(r, kind)
           f == [i \in R |-> Skip(n, i)]
<1>1. /\ \A i \in DOMAIN r : Skip(n, i) \in DOMAIN q /\ Skip(n, i) # n /\ r[i] = q[Skip(n, i)]
      /\ r \in Seq(Items)
  BY RestElements
<1>2. f \in Bijection(R, P)
  <2>1. f \in [R -> P]
    BY <1>1 DEF Places
  <2>2. \A i, j \in R : f[i] = f[j] => i = j
    BY SkipBijection DEF Places
  <2>3. \A m \in P : \E i \in R : f[i] = m
    <3> SUFFICES ASSUME NEW m \in P PROVE \E i \in R : f[i] = m
      OBVIOUS
    <3>1. m \in DOMAIN q \ {n} /\ q[m].kind = kind
      BY DEF Places
    <3>2. PICK i \in DOMAIN r : Skip(n, i) = m
      BY <3>1, SkipBijection
    <3>3. i \in R
      BY <1>1, <3>1, <3>2 DEF Places
    <3> QED BY <3>2, <3>3
  <2> QED BY <2>1, <2>2, <2>3 DEF Bijection, Injection, Surjection, IsInjective
<1>3. /\ IsFiniteSet(R) /\ IsFiniteSet(Places(q, kind))
      /\ Cardinality(Places(q, kind)) \in Nat
  BY <1>1, PlacesFinite
<1>4. Cardinality(P) = Cardinality(R)
  BY <1>2, <1>3, FS_Bijection DEF ExistsBijection
<1>5. n \in Places(q, kind) <=> q[n].kind = kind
  BY DEF Places
<1>6. Cardinality(P) = IF n \in Places(q, kind) THEN Cardinality(Places(q, kind)) - 1
                       ELSE Cardinality(Places(q, kind))
  BY <1>3, FS_RemoveElement
<1>7. Places(q, kind) = {} => R = {}
  BY <1>1 DEF Places
<1> QED BY <1>3, <1>4, <1>5, <1>6, <1>7

-----------------------------------------------------------------------------
(* The steps                                                               *)

(* A worker takes an item of highest priority.                             *)
LEMMA PopStep ==
  ASSUME TypeOK, InQueue, NEW w \in Threads, ThreadFunc(w)
  PROVE  \E n \in DOMAIN m_tasks_pq :
           /\ \A x \in DOMAIN m_tasks_pq : m_tasks_pq[x].priority <= m_tasks_pq[n].priority
           /\ m_tasks_pq[n] \in Items
           /\ m_tasks_pq[n].kind \in {"task", "pause", "kill"}
           /\ m_tasks_pq' = Rest(m_tasks_pq, n)
           /\ item' = [item EXCEPT ![w] = m_tasks_pq[n]]
           /\ pc' = [pc EXCEPT ![w] = IF m_tasks_pq[n].kind = "task" THEN "run"
                                      ELSE IF m_tasks_pq[n].kind = "pause" THEN "lock"
                                      ELSE "gone"]
           /\ m_tasks_pq[n].kind = "task" =>
                task' = [task EXCEPT ![m_tasks_pq[n].task] = "running"]
           /\ m_tasks_pq[n].kind # "task" => task' = task
<1>1. PICK n \in DOMAIN m_tasks_pq :
        LET x == m_tasks_pq[n] IN
        /\ PQ!PopAt(n)
        /\ item' = [item EXCEPT ![w] = x]
        /\ pc' = [pc EXCEPT ![w] = CASE x.kind = "task"  -> "run"
                                     [] x.kind = "pause" -> "lock"
                                     [] x.kind = "kill"  -> "gone"]
        /\ task' = [t \in Tasks |-> IF x.kind = "task" /\ x.task = t
                                    THEN "running" ELSE task[t]]
  BY DEF ThreadFunc
<1>2. n \in Highest(m_tasks_pq) /\ m_tasks_pq' = Rest(m_tasks_pq, n)
  BY <1>1 DEF PQ!PopAt, PQ!RemoveAt, Rest
<1>3. m_tasks_pq[n] \in Items /\ m_tasks_pq[n].kind \in {"task", "pause", "kill"}
  BY LenProperties, ElementOfSeq DEF TypeOK, InQueue
<1>4. pc' = [pc EXCEPT ![w] = IF m_tasks_pq[n].kind = "task" THEN "run"
                              ELSE IF m_tasks_pq[n].kind = "pause" THEN "lock"
                              ELSE "gone"]
  BY <1>1, <1>3
<1>5. m_tasks_pq[n].kind = "task" => task' = [task EXCEPT ![m_tasks_pq[n].task] = "running"]
  BY <1>1 DEF TypeOK
<1>6. m_tasks_pq[n].kind # "task" => task' = task
  BY <1>1 DEF TypeOK
<1> QED BY <1>1, <1>2, <1>3, <1>4, <1>5, <1>6 DEF Highest

(* What the workers and the queue may hold at first.                       *)
LEMMA InitInv == Init => Inv
<1> SUFFICES ASSUME Init PROVE Inv
  OBVIOUS
<1> USE DEF Init
<1>1. /\ IsFiniteSet(Threads) /\ First \subseteq Threads /\ First # {}
      /\ IsFiniteSet(First) /\ Cardinality(First) \in Nat \ {0}
      /\ Cardinality(Threads) \in Nat
  BY PoolAssumption, FS_Subset, FS_CardinalityType, FS_EmptySet
<1>2. Ready = {} /\ Halted = {} /\ Live = First
  BY <1>1 DEF Ready, Halted, Live
<1>3. Places(m_tasks_pq, "kill") = {} /\ Places(m_tasks_pq, "pause") = {}
      /\ Places(m_tasks_pq, "task") = {} /\ DOMAIN m_tasks_pq = {}
  BY DEF Places
<1>4. TypeOK
  <2>1. <<>> \in Seq(Items) /\ <<>> \in Seq(Tasks \cup {Stop})
    BY EmptySeq
  <2>2. pc \in [Threads -> {"none", "pop", "run", "notify", "post", "lock", "test",
                           "falling", "asleep", "woken", "gone"}]
    OBVIOUS
  <2>3. item \in [Threads -> Items]
    BY ItemFields
  <2>4. task \in [Tasks -> {"new", "accepted", "running", "computed", "posted", "delivered"}]
    OBVIOUS
  <2>5. m_thread_num \in Nat /\ m_pause_ready \in 0 .. Cardinality(Threads)
    BY <1>1
  <2> QED BY <2>1, <2>2, <2>3, <2>4, <2>5 DEF TypeOK
<1>5. InQueue /\ AtWorker
  BY <1>3 DEF InQueue, AtWorker, Working
<1>6. Gate
  BY <1>2, FS_EmptySet DEF Gate
<1>7. Counters
  BY <1>1 DEF Counters
<1>8. LiveCount
  <2>1. Workforce = Cardinality(First)
    BY DEF Workforce, Destroying
  <2>2. Cardinality(Places(m_tasks_pq, "kill")) = 0
    BY <1>3, FS_EmptySet
  <2> HIDE DEF Init
  <2> QED BY <1>1, <1>2, <2>1, <2>2 DEF LiveCount
<1>9. Pausing /\ Straggler
  BY <1>2, <1>3 DEF Pausing, Straggler
<1>10. Log
  <2>1. Lines = <<>>
    BY DEF Lines
  <2>2. \A t \in Tasks : ~Logged(t)
    BY DEF Logged
  <2> QED BY <2>1, <2>2 DEF Log, Stopped
<1> QED BY <1>4, <1>5, <1>6, <1>7, <1>8, <1>9, <1>10 DEF Inv

PCs == {"none", "pop", "run", "notify", "post", "lock", "test", "falling", "asleep",
        "woken", "gone"}

(* Sets of workers are finite.                                             *)
LEMMA WorkersFinite ==
  ASSUME NEW S \in SUBSET Threads
  PROVE  IsFiniteSet(S) /\ Cardinality(S) \in 0 .. Cardinality(Threads)
         /\ Cardinality(Threads) \in Nat
<1>1. IsFiniteSet(Threads)
  BY PoolAssumption
<1>2. IsFiniteSet(S) /\ Cardinality(S) <= Cardinality(Threads)
  BY <1>1, FS_Subset
<1> QED BY <1>1, <1>2, FS_CardinalityType

(* One worker joins a set of workers.                                      *)
LEMMA OneMore ==
  ASSUME NEW S \in SUBSET Threads, NEW w \in Threads \ S, NEW T, T = S \cup {w}
  PROVE  Cardinality(T) = Cardinality(S) + 1
BY WorkersFinite, FS_AddElement

(* The mutex and the counter of the paused workers.                        *)
LEMMA GateNext ==
  ASSUME TypeOK, InQueue, Gate, [Next]_vars
  PROVE  Gate'
<1> USE DEF poolVars, workVars
<1>0. /\ pc \in [Threads -> PCs] /\ "free" \notin Threads
      /\ Ready \in SUBSET Threads /\ Cardinality(Ready) \in Nat
  <2>1. Ready \in SUBSET Threads
    BY DEF Ready
  <2>2. Cardinality(Ready) \in 0 .. Cardinality(Threads) /\ Cardinality(Threads) \in Nat
    BY <2>1, WorkersFinite
  <2>3. Cardinality(Ready) \in Nat
    BY <2>2
  <2>4. pc \in [Threads -> PCs]
    BY DEF TypeOK, PCs
  <2> QED BY <2>1, <2>3, <2>4, PoolAssumption
<1>1. CASE UNCHANGED <<pc, m_mutex, m_pause_ready>>
  BY <1>1 DEF Gate, Ready
<1>2. ASSUME UNCHANGED <<m_mutex, m_pause_ready>>,
             \A w \in Threads : /\ pc'[w] \in {"test", "falling"} => pc'[w] = pc[w]
                                /\ w \in Ready' <=> w \in Ready
      PROVE  Gate'
  <2>1. Ready' = Ready
    BY <1>2 DEF Ready
  <2> QED BY <1>2, <2>1 DEF Gate
<1>3. ASSUME NEW w \in Threads, ThreadFunc(w) \/ Run(w) \/ RunNotify(w) \/ RunPost(w)
      PROVE  Gate'
  <2>1. UNCHANGED <<m_mutex, m_pause_ready>>
    BY <1>3 DEF ThreadFunc, Run, RunNotify, RunPost
  <2>2. /\ pc[w] \in {"pop", "run", "notify", "post"}
        /\ \E s \in {"run", "lock", "gone", "notify", "post", "pop"} :
             pc' = [pc EXCEPT ![w] = s]
    <3>1. CASE ThreadFunc(w)
      BY <3>1, PopStep DEF ThreadFunc
    <3>2. CASE Run(w) \/ RunNotify(w) \/ RunPost(w)
      BY <3>2 DEF Run, RunNotify, RunPost, Goto
    <3> QED BY <1>3, <3>1, <3>2
  <2> QED BY <1>0, <1>2, <2>1, <2>2 DEF Ready
<1>4. ASSUME NEW w \in Threads, PauseLock(w)
      PROVE  Gate'
  <2>1. /\ pc[w] = "lock" /\ pc' = [pc EXCEPT ![w] = "test"]
        /\ m_mutex = "free" /\ m_mutex' = w /\ m_pause_ready' = m_pause_ready + 1
    BY <1>4 DEF PauseLock, Goto
  <2>2. Ready' = Ready \cup {w} /\ w \notin Ready
    BY <1>0, <2>1 DEF Ready
  <2>3. Cardinality(Ready') = Cardinality(Ready) + 1
    BY <1>0, <2>2, OneMore
  <2> QED BY <1>0, <2>1, <2>3 DEF Gate
<1>5. ASSUME NEW w \in Threads, PauseTest(w)
      PROVE  Gate'
  <2>1. pc[w] = "test" /\ m_mutex = w
    BY <1>5 DEF PauseTest, Gate
  <2>2. CASE m_resume
    <3>1. /\ pc' = [pc EXCEPT ![w] = "pop"] /\ m_mutex' = "free"
          /\ m_pause_ready' = m_pause_ready - 1
      BY <1>5, <2>2 DEF PauseTest
    <3>2. Ready = Ready' \cup {w} /\ w \notin Ready' /\ Ready' \in SUBSET Threads
      BY <1>0, <2>1, <3>1 DEF Ready
    <3>3. Cardinality(Ready) = Cardinality(Ready') + 1 /\ Cardinality(Ready') \in Nat
      BY <1>0, <3>2, OneMore, WorkersFinite
    <3>4. \A v \in Threads : pc'[v] \notin {"test", "falling"}
      BY <1>0, <2>1, <3>1 DEF Gate
    <3> QED BY <1>0, <3>1, <3>3, <3>4 DEF Gate
  <2>3. CASE ~m_resume
    <3>1. pc' = [pc EXCEPT ![w] = "falling"] /\ UNCHANGED <<m_mutex, m_pause_ready>>
      BY <1>5, <2>3 DEF PauseTest
    <3>2. Ready' = Ready
      BY <1>0, <2>1, <3>1 DEF Ready
    <3> QED BY <1>0, <2>1, <3>1, <3>2 DEF Gate
  <2> QED BY <2>2, <2>3
<1>6. ASSUME NEW w \in Threads, PauseSleep(w)
      PROVE  Gate'
  <2>1. /\ pc[w] = "falling" /\ pc' = [pc EXCEPT ![w] = "asleep"] /\ m_mutex = w
        /\ m_mutex' = "free" /\ m_pause_ready' = m_pause_ready
    BY <1>6 DEF PauseSleep, Goto, Gate
  <2>2. Ready' = Ready
    BY <1>0, <2>1 DEF Ready
  <2>3. \A v \in Threads : pc'[v] \notin {"test", "falling"}
    BY <1>0, <2>1 DEF Gate
  <2> QED BY <2>1, <2>2, <2>3 DEF Gate
<1>7. ASSUME NEW w \in Threads, PauseWake(w)
      PROVE  Gate'
  <2>1. /\ pc[w] = "woken" /\ pc' = [pc EXCEPT ![w] = "test"] /\ m_mutex = "free"
        /\ m_mutex' = w /\ m_pause_ready' = m_pause_ready
    BY <1>7 DEF PauseWake, Goto
  <2>2. Ready' = Ready
    BY <1>0, <2>1 DEF Ready
  <2> QED BY <1>0, <2>1, <2>2 DEF Gate
<1>8. CASE ResumeNotify
  BY <1>0, <1>2, <1>8 DEF ResumeNotify, Ready
<1>9. ASSUME NEW w \in Threads, Grow(w)
      PROVE  Gate'
  BY <1>0, <1>2, <1>9 DEF Grow, Goto, Ready
<1>10. CASE \/ \E t \in Tasks : GetOutput(t) \/ \E p \in Priorities : AddTask(t, p)
            \/ Pause \/ (\E n \in Counts : SetNumThreads(n)) \/ Destroy
            \/ PauseSpin \/ PausePush \/ PauseReturn \/ Resume \/ Resized \/ Shrink
            \/ DestroyPush \/ DestroyJoin \/ LoggerStop \/ LoggerNotify \/ LoggerClose
            \/ LogPop \/ LogRun \/ UNCHANGED vars
  BY <1>1, <1>10
     DEF GetOutput, AddTask, Pause, SetNumThreads, Destroy, PauseSpin, PausePush,
         PauseReturn, Resume, Resized, Shrink, DestroyPush, DestroyJoin, LoggerStop,
         LoggerNotify, LoggerClose, LogPop, LogRun, vars
<1> QED BY <1>3, <1>4, <1>5, <1>6, <1>7, <1>8, <1>9, <1>10 DEF Next, Worker, Returns

(* What Push adds to the queue.                                            *)
LEMMA PushElements ==
  ASSUME NEW S, NEW q \in Seq(S), NEW x \in S
  PROVE  /\ Append(q, x) \in Seq(S) /\ Len(q) \in Nat /\ Len(Append(q, x)) = Len(q) + 1
         /\ DOMAIN q = 1 .. Len(q) /\ DOMAIN Append(q, x) = 1 .. (Len(q) + 1)
         /\ \A n \in 1 .. (Len(q) + 1) :
              Append(q, x)[n] = IF n = Len(q) + 1 THEN x ELSE q[n]
<1>1. Append(q, x) \in Seq(S) /\ Len(q) \in Nat /\ Len(Append(q, x)) = Len(q) + 1
  BY AppendProperties, LenProperties
<1>2. \A n \in 1 .. (Len(q) + 1) : Append(q, x)[n] = IF n = Len(q) + 1 THEN x ELSE q[n]
  BY <1>1, AppendProperties
<1> QED BY <1>1, <1>2, LenProperties

(* A task is in one place.                                                 *)
LEMMA OnceNext ==
  ASSUME TypeOK, InQueue, AtWorker, [Next]_vars
  PROVE  InQueue' /\ AtWorker'
<1> USE DEF poolVars, workVars
<1> DEFINE q == m_tasks_pq
<1>0. /\ pc \in [Threads -> PCs] /\ item \in [Threads -> Items] /\ q \in Seq(Items)
      /\ task \in [Tasks -> {"new", "accepted", "running", "computed", "posted", "delivered"}]
      /\ \A x \in Items : x.kind = "task" => x.task \in Tasks
      /\ \A n \in DOMAIN q : q[n] \in Items
  BY ItemFields, LenProperties, ElementOfSeq DEF TypeOK, PCs
<1>00. \A w \in Threads : pc[w] \in Working => item[w].task \in Tasks
  BY <1>0 DEF AtWorker
<1>1. CASE UNCHANGED <<m_tasks_pq, pc, item, task>>
  BY <1>1 DEF InQueue, AtWorker, Places
<1>2. ASSUME UNCHANGED <<m_tasks_pq, task>>,
             \A w \in Threads : /\ pc'[w] \in Working <=> pc[w] \in Working
                                /\ pc[w] \in Working => pc'[w] = pc[w] /\ item'[w] = item[w]
      PROVE  InQueue' /\ AtWorker'
  BY <1>2 DEF InQueue, AtWorker, Places
<1>3. ASSUME NEW x \in Items, q' = Append(q, x), x.kind \in {"pause", "kill"},
             UNCHANGED <<pc, item, task>>
      PROVE  InQueue' /\ AtWorker'
  <2>1. AtWorker'
    BY <1>3 DEF AtWorker
  <2>2. InQueue'
    BY <1>0, <1>3, PushElements DEF InQueue, Places
  <2> QED BY <2>1, <2>2
<1>4. ASSUME NEW t \in Tasks, NEW p \in Priorities, AddTask(t, p)
      PROVE  InQueue' /\ AtWorker'
  <2>1. /\ q' = Append(q, Job(t, p)) /\ Job(t, p) \in Items /\ task[t] = "new"
        /\ Job(t, p).kind = "task" /\ Job(t, p).task = t
        /\ task' = [task EXCEPT ![t] = "accepted"] /\ UNCHANGED <<pc, item>>
    BY <1>4, ItemFields DEF AddTask, PQ!Push
  <2>2. AtWorker'
    BY <1>0, <1>00, <2>1 DEF AtWorker
  <2>3. \A n \in Places(q, "task") : q[n].task # t /\ q[n].task \in Tasks
    BY <1>0, <2>1 DEF InQueue, Places
  <2>4. \A n \in DOMAIN q' : /\ n \in DOMAIN q /\ n # Len(q) + 1 => q'[n] = q[n]
                             /\ n \notin DOMAIN q => n = Len(q) + 1
                             /\ n = Len(q) + 1 => q'[n] = Job(t, p) /\ n \notin DOMAIN q
    BY <1>0, <2>1, PushElements
  <2>5. InQueue'
    <3> HIDE DEF q
    <3>1. \A n \in DOMAIN q' : q'[n].kind \in {"task", "pause", "kill"}
      BY <2>1, <2>4 DEF InQueue, q
    <3>2. \A n \in Places(q', "task") : task'[q'[n].task] = "accepted"
      BY <1>0, <2>1, <2>3, <2>4 DEF InQueue, Places, q
    <3>3. \A n, m \in Places(q', "task") : q'[n].task = q'[m].task => n = m
      BY <2>1, <2>3, <2>4 DEF InQueue, Places, q
    <3> QED BY <3>1, <3>2, <3>3 DEF InQueue, Places, q
  <2> QED BY <2>2, <2>5
<1>5. ASSUME NEW w \in Threads, ThreadFunc(w)
      PROVE  InQueue' /\ AtWorker'
  <2>1. PICK n \in DOMAIN q :
           /\ q[n].kind \in {"task", "pause", "kill"}
           /\ q' = Rest(q, n)
           /\ item' = [item EXCEPT ![w] = q[n]]
           /\ pc' = [pc EXCEPT ![w] = IF q[n].kind = "task" THEN "run"
                                      ELSE IF q[n].kind = "pause" THEN "lock" ELSE "gone"]
           /\ q[n].kind = "task" => task' = [task EXCEPT ![q[n].task] = "running"]
           /\ q[n].kind # "task" => task' = task
    BY <1>5, PopStep
  <2>2. pc[w] = "pop"
    BY <1>5 DEF ThreadFunc
  <2>3. \A i \in DOMAIN q' : Skip(n, i) \in DOMAIN q /\ Skip(n, i) # n /\ q'[i] = q[Skip(n, i)]
    BY <1>0, <2>1, RestElements
  <2>4. \A i, j \in DOMAIN q' : Skip(n, i) = Skip(n, j) => i = j
    BY <1>0, <2>1, SkipBijection
  <2>5. q[n].kind = "task" =>
          /\ q[n].task \in Tasks /\ task[q[n].task] = "accepted"
          /\ \A m \in DOMAIN q : q[m].kind = "task" /\ q[m].task = q[n].task => m = n
    BY <1>0 DEF InQueue, Places
  <2>6. InQueue'
    <3> HIDE DEF q
    <3>1. \A i \in DOMAIN q' : q'[i].kind \in {"task", "pause", "kill"}
      BY <2>3 DEF InQueue, q
    <3>2. \A i \in Places(q', "task") : task'[q'[i].task] = "accepted"
      <4> SUFFICES ASSUME NEW i \in DOMAIN q', q'[i].kind = "task"
                   PROVE  task'[q'[i].task] = "accepted"
        BY DEF Places
      <4>1. /\ Skip(n, i) \in DOMAIN q /\ Skip(n, i) # n /\ q'[i] = q[Skip(n, i)]
            /\ q[Skip(n, i)].task \in Tasks /\ task[q[Skip(n, i)].task] = "accepted"
        BY <1>0, <2>3 DEF InQueue, Places, q
      <4>2. q[n].kind = "task" => q[n].task # q[Skip(n, i)].task
        BY <2>5, <4>1
      <4> QED BY <1>0, <2>1, <4>1, <4>2
    <3>3. \A i, j \in Places(q', "task") : q'[i].task = q'[j].task => i = j
      BY <2>3, <2>4 DEF InQueue, Places, q
    <3> QED BY <3>1, <3>2, <3>3 DEF InQueue, Places, q
  <2> HIDE DEF q
  <2>7. CASE q[n].kind # "task"
    <3>1. AtWorker'
      BY <1>0, <2>1, <2>2, <2>7 DEF AtWorker, Working
    <3> QED BY <2>6, <3>1
  <2>8. CASE q[n].kind = "task"
    <3>1. /\ pc' = [pc EXCEPT ![w] = "run"] /\ item' = [item EXCEPT ![w] = q[n]]
          /\ task' = [task EXCEPT ![q[n].task] = "running"]
          /\ q[n].task \in Tasks /\ task[q[n].task] = "accepted" /\ q[n].kind = "task"
      BY <2>1, <2>5, <2>8
    <3>2. \A v \in Threads \ {w} : pc[v] \in Working => item[v].task # q[n].task
      BY <3>1 DEF AtWorker
    <3>3. AtWorker'
      <4>1. \A v \in Threads : pc'[v] \in Working =>
              /\ item'[v].kind = "task"
              /\ task'[item'[v].task] = IF pc'[v] = "post" THEN "computed" ELSE "running"
        BY <1>0, <1>00, <3>1, <3>2 DEF AtWorker
      <4>2. \A u, v \in Threads :
              pc'[u] \in Working /\ pc'[v] \in Working /\ item'[u].task = item'[v].task => u = v
        BY <1>0, <3>1, <3>2 DEF AtWorker
      <4>3. \A t \in Tasks : task'[t] \in {"running", "computed"} =>
              \E v \in Threads : pc'[v] \in Working /\ item'[v].task = t
        <5> SUFFICES ASSUME NEW t \in Tasks, task'[t] \in {"running", "computed"}
                     PROVE  \E v \in Threads : pc'[v] \in Working /\ item'[v].task = t
          OBVIOUS
        <5>1. CASE t = q[n].task
          <6>1. pc'[w] \in Working /\ item'[w].task = t
            BY <1>0, <3>1, <5>1 DEF Working
          <6> QED BY <6>1
        <5>2. CASE t # q[n].task
          <6>1. PICK v \in Threads : pc[v] \in Working /\ item[v].task = t
            BY <1>0, <3>1, <5>2 DEF AtWorker
          <6>2. v # w /\ pc'[v] = pc[v] /\ item'[v] = item[v]
            BY <1>0, <2>2, <3>1, <6>1 DEF Working
          <6> QED BY <6>1, <6>2
        <5> QED BY <5>1, <5>2
      <4> QED BY <4>1, <4>2, <4>3 DEF AtWorker
    <3> QED BY <2>6, <3>3
  <2> QED BY <2>7, <2>8
<1>6. ASSUME NEW w \in Threads, pc[w] \in Working, NEW s \in Working \cup {"pop"},
             NEW c \in {"running", "computed", "posted"},
             pc' = [pc EXCEPT ![w] = s],
             task' = [task EXCEPT ![item[w].task] = c],
             s = "pop" <=> c = "posted", s = "post" <=> c = "computed",
             q' = q, \A v \in Threads \ {w} : item'[v] = item[v],
             s # "pop" => item'[w] = item[w]
      PROVE  InQueue' /\ AtWorker'
  <2> DEFINE x == item[w].task
  <2>1. /\ x \in Tasks /\ task[x] \in {"running", "computed"} /\ item[w].kind = "task"
        /\ \A v \in Threads : pc[v] \in Working /\ item[v].task = x => v = w
    BY <1>00, <1>6 DEF AtWorker
  <2> HIDE DEF x
  <2>2. \A t \in Tasks : task'[t] = IF t = x THEN c ELSE task[t]
    BY <1>0, <1>6, <2>1 DEF x
  <2>3. \A v \in Threads : pc'[v] = IF v = w THEN s ELSE pc[v]
    BY <1>0, <1>6
  <2>4. InQueue'
    <3>1. \A n \in DOMAIN q : q[n].kind = "task" => q[n].task \in Tasks /\ q[n].task # x
      BY <1>0, <2>1 DEF InQueue, Places
    <3> QED BY <1>6, <2>2, <3>1 DEF InQueue, Places
  <2>5. AtWorker'
    <3>1. \A v \in Threads : pc'[v] \in Working =>
            /\ item'[v].kind = "task"
            /\ task'[item'[v].task] = IF pc'[v] = "post" THEN "computed" ELSE "running"
      <4> SUFFICES ASSUME NEW v \in Threads, pc'[v] \in Working
                   PROVE  /\ item'[v].kind = "task"
                          /\ task'[item'[v].task] =
                               IF pc'[v] = "post" THEN "computed" ELSE "running"
        OBVIOUS
      <4>1. CASE v = w
        <5>1. s # "pop" /\ item'[v] = item[w]
          BY <1>6, <2>3, <4>1 DEF Working
        <5>2. task'[item'[v].task] = c /\ item'[v].kind = "task" /\ pc'[v] = s
          BY <2>1, <2>2, <2>3, <4>1, <5>1 DEF x
        <5> QED BY <1>6, <5>1, <5>2
      <4>2. CASE v # w
        <5>1. pc'[v] = pc[v] /\ item'[v] = item[v] /\ item[v].task # x /\ item[v].task \in Tasks
          BY <1>00, <1>6, <2>1, <2>3, <4>2
        <5> QED BY <2>2, <5>1 DEF AtWorker
      <4> QED BY <4>1, <4>2
    <3>2. \A v \in Threads : pc'[v] \in Working => item'[v] = item[v] /\ pc[v] \in Working
      BY <1>6, <2>3 DEF Working
    <3>3. \A u, v \in Threads :
            pc'[u] \in Working /\ pc'[v] \in Working /\ item'[u].task = item'[v].task => u = v
      BY <3>2 DEF AtWorker
    <3>4. \A t \in Tasks : task'[t] \in {"running", "computed"} =>
            \E v \in Threads : pc'[v] \in Working /\ item'[v].task = t
      <4> SUFFICES ASSUME NEW t \in Tasks, task'[t] \in {"running", "computed"}
                   PROVE  \E v \in Threads : pc'[v] \in Working /\ item'[v].task = t
        OBVIOUS
      <4>1. CASE t = x
        <5>1. c # "posted" /\ s \in Working /\ item'[w] = item[w]
          BY <1>6, <2>2, <4>1
        <5> QED BY <2>3, <4>1, <5>1 DEF x
      <4>2. CASE t # x
        <5>1. PICK v \in Threads : pc[v] \in Working /\ item[v].task = t
          BY <2>2, <4>2 DEF AtWorker
        <5>2. v # w
          BY <4>2, <5>1 DEF x
        <5> QED BY <1>6, <2>3, <5>1, <5>2
      <4> QED BY <4>1, <4>2
    <3> QED BY <3>1, <3>3, <3>4 DEF AtWorker
  <2> QED BY <2>4, <2>5
<1>7. ASSUME NEW w \in Threads, Run(w)
      PROVE  InQueue' /\ AtWorker'
  <2>1. pc[w] = "run" /\ pc' = [pc EXCEPT ![w] = "notify"] /\ q' = q /\ UNCHANGED <<item, task>>
    BY <1>7 DEF Run, Goto
  <2>2. task[item[w].task] = "running" /\ item[w].task \in Tasks
    BY <1>00, <2>1 DEF AtWorker, Working
  <2>3. task' = [task EXCEPT ![item[w].task] = "running"]
    BY <1>0, <2>1, <2>2
  <2> HIDE DEF q
  <2> QED BY <1>6, <2>1, <2>3 DEF Working
<1>8. ASSUME NEW w \in Threads, RunNotify(w)
      PROVE  InQueue' /\ AtWorker'
  <2>1. /\ pc[w] = "notify" /\ pc' = [pc EXCEPT ![w] = "post"] /\ q' = q /\ UNCHANGED item
        /\ task' = [task EXCEPT ![item[w].task] = "computed"]
    BY <1>8 DEF RunNotify, Goto
  <2> HIDE DEF q
  <2> QED BY <1>6, <2>1 DEF Working
<1>9. ASSUME NEW w \in Threads, RunPost(w)
      PROVE  InQueue' /\ AtWorker'
  <2>1. /\ pc[w] = "post" /\ pc' = [pc EXCEPT ![w] = "pop"] /\ q' = q
        /\ item' = [item EXCEPT ![w] = Nothing]
        /\ task' = [task EXCEPT ![item[w].task] = "posted"]
    BY <1>9 DEF RunPost, Goto
  <2> HIDE DEF q
  <2> QED BY <1>0, <1>6, <2>1 DEF Working
<1>10. ASSUME NEW t \in Tasks, GetOutput(t)
       PROVE  InQueue' /\ AtWorker'
  <2>1. /\ task[t] = "posted" /\ task' = [task EXCEPT ![t] = "delivered"]
        /\ UNCHANGED <<m_tasks_pq, pc, item>>
    BY <1>10 DEF GetOutput
  <2>2. \A n \in DOMAIN q : q[n].kind = "task" => q[n].task \in Tasks
    BY <1>0
  <2>3. InQueue'
    BY <1>0, <2>1, <2>2 DEF InQueue, Places
  <2>4. AtWorker'
    BY <1>0, <1>00, <2>1 DEF AtWorker
  <2> QED BY <2>3, <2>4
<1>11. ASSUME NEW w \in Threads, PauseLock(w) \/ PauseTest(w) \/ PauseSleep(w) \/ PauseWake(w)
                                 \/ Grow(w)
       PROVE  InQueue' /\ AtWorker'
  <2>1. /\ UNCHANGED <<m_tasks_pq, task>>
        /\ item' = item \/ item' = [item EXCEPT ![w] = Nothing]
        /\ pc[w] \in {"lock", "test", "falling", "woken", "none"}
        /\ \E s \in {"test", "pop", "falling", "asleep"} : pc' = [pc EXCEPT ![w] = s]
    BY <1>11 DEF PauseLock, PauseTest, PauseSleep, PauseWake, Grow, Goto
  <2> QED BY <1>0, <1>2, <2>1 DEF Working
<1>12. CASE ResumeNotify
  BY <1>0, <1>2, <1>12 DEF ResumeNotify, Working
<1>13. CASE PausePush \/ Shrink \/ DestroyPush
  <2>1. \E x \in {PauseTask, Kill} : q' = Append(q, x) /\ UNCHANGED <<pc, item, task>>
    BY <1>13 DEF PausePush, Shrink, DestroyPush, PQ!Push
  <2> HIDE DEF q
  <2> QED BY <1>3, <2>1, ItemFields
<1>14. CASE \/ Pause \/ (\E n \in Counts : SetNumThreads(n)) \/ Destroy
            \/ PauseSpin \/ PauseReturn \/ Resume \/ Resized
            \/ DestroyJoin \/ LoggerStop \/ LoggerNotify \/ LoggerClose
            \/ LogPop \/ LogRun \/ UNCHANGED vars
  BY <1>1, <1>14
     DEF Pause, SetNumThreads, Destroy, PauseSpin, PauseReturn, Resume, Resized,
         DestroyJoin, LoggerStop, LoggerNotify, LoggerClose, LogPop, LogRun, vars
<1> QED BY <1>4, <1>5, <1>7, <1>8, <1>9, <1>10, <1>11, <1>12, <1>13, <1>14
        DEF Next, Worker, Returns

(* The loop counters.                                                      *)
LEMMA CountersNext ==
  ASSUME Counters, [Next]_vars
  PROVE  Counters'
<1> USE DEF poolVars, workVars, ctlVars, Call
<1>1. CASE UNCHANGED <<m_thread_num, ctl, k, num>>
  BY <1>1 DEF Counters
<1>2. CASE Pause \/ PauseReturn \/ Resume \/ ResumeNotify \/ DestroyJoin \/ LoggerStop
           \/ LoggerNotify \/ LoggerClose
  BY <1>2 DEF Pause, PauseReturn, Resume, ResumeNotify, DestroyJoin, LoggerStop,
              LoggerNotify, LoggerClose, Counters
<1>3. CASE PauseSpin \/ Destroy
  BY <1>3 DEF PauseSpin, Destroy, Counters
<1>4. CASE PausePush \/ DestroyPush
  BY <1>4 DEF PausePush, DestroyPush, Counters
<1>5. ASSUME NEW n \in Counts, SetNumThreads(n)
      PROVE  Counters'
  BY <1>5, PoolAssumption DEF SetNumThreads, Counters
<1>6. CASE Shrink \/ Resized \/ \E w \in Threads : Grow(w)
  BY <1>6 DEF Shrink, Resized, Grow, Counters
<1>7. CASE \/ \E w \in Threads : Worker(w)
           \/ \E t \in Tasks : GetOutput(t) \/ \E p \in Priorities : AddTask(t, p)
           \/ LogPop \/ LogRun \/ UNCHANGED vars
  BY <1>1, <1>7 DEF Worker, ThreadFunc, Run, RunNotify, RunPost, PauseLock, PauseTest,
     PauseSleep, PauseWake, GetOutput, AddTask, LogPop, LogRun, vars
<1> QED BY <1>2, <1>3, <1>4, <1>5, <1>6, <1>7 DEF Next, Returns

(* The pills and the workers too many.                                     *)
LEMMA LiveNext ==
  ASSUME TypeOK, InQueue, Counters, Pausing, LiveCount, [Next]_vars
  PROVE  LiveCount'
<1> USE DEF poolVars, workVars, ctlVars, Call
<1> DEFINE q == m_tasks_pq
           pills == Cardinality(Places(q, "kill"))
<1>0. /\ pc \in [Threads -> PCs] /\ q \in Seq(Items)
      /\ k \in Nat /\ m_thread_num \in Nat
  BY DEF TypeOK, PCs, Counters
<1>00. pills \in Nat
  BY <1>0, PlacesFinite
<1>000. Live \in SUBSET Threads /\ Cardinality(Live) \in Nat
  <2>1. Live \in SUBSET Threads
    BY DEF Live
  <2> QED BY <2>1, WorkersFinite
<1>1. ASSUME UNCHANGED <<m_tasks_pq, m_thread_num, ctl, k>>, Live' = Live
      PROVE  LiveCount'
  BY <1>1 DEF LiveCount, Workforce
<1>2. ASSUME NEW x \in Items, q' = Append(q, x), x.kind # "kill",
             Live' = Live, Workforce' = Workforce
      PROVE  LiveCount'
  <2>1. pills' = pills
    BY <1>0, <1>00, <1>2, PlacesPush
  <2> HIDE DEF q, pills
  <2> QED BY <1>2, <2>1 DEF LiveCount, q, pills
<1>3. ASSUME q' = Append(q, Kill), Live' = Live, Workforce' = Workforce - 1
      PROVE  LiveCount'
  <2>1. pills' = pills + 1
    BY <1>0, <1>00, <1>3, PlacesPush, ItemFields
  <2>2. Workforce \in Int
    BY <1>0 DEF Workforce
  <2>3. Cardinality(Live) = pills + Workforce
    BY DEF LiveCount
  <2>4. Cardinality(Live') = pills' + Workforce'
    BY <1>00, <1>3, <2>1, <2>2, <2>3
  <2> QED BY <2>4 DEF LiveCount
<1>4. ASSUME NEW w \in Threads, ThreadFunc(w)
      PROVE  LiveCount'
  <2>1. PICK n \in DOMAIN q :
           /\ q[n].kind \in {"task", "pause", "kill"}
           /\ q' = Rest(q, n)
           /\ pc' = [pc EXCEPT ![w] = IF q[n].kind = "task" THEN "run"
                                      ELSE IF q[n].kind = "pause" THEN "lock" ELSE "gone"]
    BY <1>4, PopStep
  <2>2. pc[w] = "pop" /\ UNCHANGED <<m_thread_num, ctl, k>>
    BY <1>4 DEF ThreadFunc
  <2>3. Workforce' = Workforce /\ Workforce \in Int
    BY <1>0, <2>2 DEF Workforce
  <2>4. pills' = pills - (IF q[n].kind = "kill" THEN 1 ELSE 0)
    BY <1>0, <2>1, PlacesPop
  <2>5. Cardinality(Live) = pills + Workforce
    BY DEF LiveCount
  <2> HIDE DEF q, pills
  <2>6. CASE q[n].kind = "kill"
    <3>1. Live = Live' \cup {w} /\ w \in Threads \ Live' /\ Live' \in SUBSET Threads
      BY <1>0, <2>1, <2>2, <2>6 DEF Live
    <3>2. Cardinality(Live) = Cardinality(Live') + 1 /\ Cardinality(Live') \in Nat
      BY <3>1, OneMore, WorkersFinite
    <3>3. Cardinality(Live') = pills' + Workforce'
      BY <1>00, <2>3, <2>4, <2>5, <2>6, <3>2
    <3> QED BY <3>3 DEF LiveCount, q, pills
  <2>7. CASE q[n].kind # "kill"
    <3>1. Live' = Live
      BY <1>0, <2>1, <2>2, <2>7 DEF Live
    <3>2. pills' = pills
      BY <1>00, <2>4, <2>7
    <3>3. Cardinality(Live') = pills' + Workforce'
      BY <2>3, <2>5, <3>1, <3>2
    <3> QED BY <3>3 DEF LiveCount, q, pills
  <2> QED BY <2>6, <2>7
<1>5. ASSUME NEW w \in Threads, Worker(w), ~ThreadFunc(w)
      PROVE  LiveCount'
  <2>1. UNCHANGED <<m_tasks_pq, m_thread_num, ctl, k>>
    BY <1>5 DEF Worker, Run, RunNotify, RunPost, PauseLock, PauseTest, PauseSleep, PauseWake
  <2>2. pc[w] \notin {"none", "gone"}
        /\ \E s \in PCs \ {"none", "gone"} : pc' = [pc EXCEPT ![w] = s]
    BY <1>5 DEF Worker, Run, RunNotify, RunPost, PauseLock, PauseTest, PauseSleep, PauseWake,
       Goto, PCs
  <2>3. Live' = Live
    BY <1>0, <2>2 DEF Live
  <2> QED BY <1>1, <2>1, <2>3
<1>6. ASSUME NEW t \in Tasks, NEW p \in Priorities, AddTask(t, p)
      PROVE  LiveCount'
  <2>1. q' = Append(q, Job(t, p)) /\ Live' = Live /\ UNCHANGED <<m_thread_num, ctl, k>>
    BY <1>6 DEF AddTask, PQ!Push, Live
  <2>2. Workforce' = Workforce
    BY <2>1 DEF Workforce
  <2> HIDE DEF q
  <2> QED BY <1>2, <2>1, <2>2, ItemFields
<1>7. CASE PausePush
  <2>1. q' = Append(q, PauseTask) /\ Live' = Live
    BY <1>7 DEF PausePush, PQ!Push, Live
  <2>2. Workforce' = Workforce
    BY <1>7 DEF PausePush, Workforce, Destroying
  <2> HIDE DEF q
  <2> QED BY <1>2, <2>1, <2>2, ItemFields
<1>8. CASE Shrink
  <2>1. q' = Append(q, Kill) /\ Live' = Live
    BY <1>8 DEF Shrink, PQ!Push, Live
  <2>2. Workforce' = Workforce - 1
    BY <1>8 DEF Shrink, Workforce, Destroying
  <2> HIDE DEF q
  <2> QED BY <1>3, <2>1, <2>2
<1>9. CASE DestroyPush
  <2>1. q' = Append(q, Kill) /\ Live' = Live
    BY <1>9 DEF DestroyPush, PQ!Push, Live
  <2>2. Workforce' = Workforce - 1
    BY <1>0, <1>9 DEF DestroyPush, Workforce, Counters, Destroying
  <2> HIDE DEF q
  <2> QED BY <1>3, <2>1, <2>2
<1>10. ASSUME NEW w \in Threads, Grow(w)
       PROVE  LiveCount'
  <2>1. /\ pc[w] = "none" /\ pc' = [pc EXCEPT ![w] = "pop"] /\ q' = q
        /\ ctl = "resize" /\ ctl' = "resize" /\ k' = k + 1
    BY <1>10 DEF Grow, Goto
  <2>2. Live' = Live \cup {w} /\ w \in Threads \ Live
    BY <1>0, <2>1 DEF Live
  <2>3. Cardinality(Live') = Cardinality(Live) + 1
    BY <1>000, <2>2, OneMore
  <2>4. Workforce = k /\ Workforce' = k + 1 /\ pills' = pills
    BY <2>1 DEF Workforce, Destroying
  <2>5. Cardinality(Live) = pills + Workforce
    BY DEF LiveCount
  <2> HIDE DEF q, pills
  <2>6. Cardinality(Live') = pills' + Workforce'
    BY <1>0, <1>00, <2>3, <2>4, <2>5
  <2> QED BY <2>6 DEF LiveCount, q, pills
<1>11. CASE ResumeNotify
  <2>1. Live' = Live
    BY <1>0, <1>11 DEF ResumeNotify, Live
  <2>2. Workforce' = Workforce /\ q' = q
    BY <1>11 DEF ResumeNotify, Workforce, Destroying
  <2> QED BY <2>1, <2>2 DEF LiveCount
<1>12. CASE \/ Pause \/ (\E n \in Counts : SetNumThreads(n)) \/ Destroy
            \/ PauseSpin \/ PauseReturn \/ Resume \/ Resized
            \/ DestroyJoin \/ LoggerStop \/ LoggerNotify \/ LoggerClose
  <2>1. q' = q /\ Live' = Live
    BY <1>12 DEF Pause, SetNumThreads, Destroy, PauseSpin, PauseReturn, Resume, Resized,
         DestroyJoin, LoggerStop, LoggerNotify, LoggerClose, Live
  <2>2. Workforce' = Workforce
    <3>1. CASE \/ Pause \/ PauseSpin \/ PauseReturn \/ Resume
               \/ DestroyJoin \/ LoggerStop \/ LoggerNotify \/ LoggerClose
      BY <3>1 DEF Pause, PauseSpin, PauseReturn, Resume, DestroyJoin, LoggerStop,
                  LoggerNotify, LoggerClose, Workforce, Destroying
    <3>2. CASE \E n \in Counts : SetNumThreads(n)
      BY <3>2 DEF SetNumThreads, Workforce, Destroying
    <3>3. CASE Resized
      BY <3>3 DEF Resized, Workforce, Destroying
    <3>4. CASE Destroy
      <4>1. /\ ctl = "idle" /\ ctl' = "pills" /\ k' = 0 /\ m_thread_num' = m_thread_num
            /\ m_thread_num - 0 = m_thread_num
        BY <1>0, <3>4 DEF Destroy
      <4>2. Workforce = m_thread_num /\ Workforce' = m_thread_num' - k'
        BY <4>1 DEF Workforce, Destroying
      <4> QED BY <4>1, <4>2
    <3> QED BY <1>12, <3>1, <3>2, <3>3, <3>4
  <2> QED BY <2>1, <2>2 DEF LiveCount
<1>13. CASE (\E t \in Tasks : GetOutput(t)) \/ LogPop \/ LogRun \/ UNCHANGED vars
  BY <1>1, <1>13 DEF GetOutput, LogPop, LogRun, vars, Live
<1> QED BY <1>4, <1>5, <1>6, <1>7, <1>8, <1>9, <1>10, <1>11, <1>12, <1>13
        DEF Next, Returns

(* Pause is safe: its tasks wait behind every pill, and it returns only    *)
(* when every worker there is has stopped.                                 *)
LEMMA PausingNext ==
  ASSUME TypeOK, InQueue, Gate, Counters, Pausing, LiveCount, [Next]_vars
  PROVE  Pausing'
<1> USE DEF poolVars, workVars, ctlVars, Call
<1> DEFINE q == m_tasks_pq
           pauses == Cardinality(Places(q, "pause"))
<1>0. /\ pc \in [Threads -> PCs] /\ q \in Seq(Items)
      /\ k \in Nat /\ m_thread_num \in Nat \ {0}
  BY DEF TypeOK, PCs, Counters
<1>00. /\ pauses \in Nat /\ (pauses = 0 <=> Places(q, "pause") = {})
       /\ Cardinality(Places(q, "kill")) \in Nat
  BY <1>0, PlacesFinite, FS_EmptySet
<1>000. /\ Ready \in SUBSET Threads /\ Halted \in SUBSET Threads /\ Live \in SUBSET Threads
        /\ Cardinality(Ready) \in Nat /\ Cardinality(Halted) \in Nat
        /\ Cardinality(Live) \in Nat
        /\ IsFiniteSet(Ready) /\ IsFiniteSet(Live) /\ Ready \subseteq Halted
        /\ Halted \subseteq Live
  <2>1. /\ Ready \in SUBSET Threads /\ Halted \in SUBSET Threads /\ Live \in SUBSET Threads
        /\ Ready \subseteq Halted /\ Halted \subseteq Live
    BY <1>0 DEF Ready, Halted, Live
  <2> QED BY <2>1, WorkersFinite
<1>1. ASSUME Ready' = Ready, Halted' = Halted, Live' = Live, q' = q,
             UNCHANGED <<ctl, k, m_resume>>
      PROVE  Pausing'
  BY <1>1 DEF Pausing
<1>2. ASSUME NEW w \in Threads, ThreadFunc(w)
      PROVE  Pausing'
  <2>1. PICK n \in DOMAIN q :
           /\ \A x \in DOMAIN q : q[x].priority <= q[n].priority
           /\ q[n] \in Items
           /\ q[n].kind \in {"task", "pause", "kill"}
           /\ q' = Rest(q, n)
           /\ pc' = [pc EXCEPT ![w] = IF q[n].kind = "task" THEN "run"
                                      ELSE IF q[n].kind = "pause" THEN "lock" ELSE "gone"]
    BY <1>2, PopStep
  <2>2. pc[w] = "pop" /\ UNCHANGED <<ctl, k, m_resume>>
    BY <1>2 DEF ThreadFunc
  <2>3. w \in Live /\ w \notin Ready /\ w \notin Halted /\ Ready' = Ready
    BY <1>0, <2>1, <2>2 DEF Live, Ready, Halted
  <2>4. ctl # "paused" /\ ctl \notin {"stop", "stopNotify", "stopJoin", "end"}
    BY <2>3 DEF Pausing
  <2>5. /\ Places(q, "kill") = {} => Places(q', "kill") = {}
        /\ Places(q, "pause") = {} => Places(q', "pause") = {}
        /\ pauses' = pauses - (IF q[n].kind = "pause" THEN 1 ELSE 0)
    BY <1>0, <2>1, PlacesPop
  <2>6. q[n].kind = "pause" => Places(q, "kill") = {}
    <3> SUFFICES ASSUME q[n].kind = "pause", NEW m \in DOMAIN q, q[m].kind = "kill"
                 PROVE  FALSE
      BY DEF Places
    <3>1. q[m] \in Items
      BY <1>0, LenProperties, ElementOfSeq
    <3>2. q[n].priority = 3 /\ q[m].priority = 4
      BY <2>1, <3>1, ItemFields
    <3>3. 4 <= 3
      BY <2>1, <3>2
    <3> QED BY <3>3
  <2>7. q[n].kind = "pause" => Places(q, "pause") # {}
    BY DEF Places
  <2> HIDE DEF q
  <2>8. CASE q[n].kind = "pause"
    <3>1. Halted' = Halted \cup {w}
      BY <1>0, <2>1, <2>2, <2>8 DEF Halted
    <3>2. Cardinality(Halted') = Cardinality(Halted) + 1
      BY <1>000, <2>3, <3>1, OneMore
    <3>3. ctl \in {"pause", "wait"} /\ Places(q', "kill") = {}
      BY <2>5, <2>6, <2>7, <2>8 DEF Pausing, q
    <3>4. pauses + Cardinality(Halted) = k
      BY <3>3 DEF Pausing, q
    <3> HIDE DEF pauses
    <3>5. pauses' + Cardinality(Halted') = k
      BY <1>00, <1>000, <2>5, <2>8, <3>2, <3>4
    <3> QED BY <2>2, <2>3, <3>3, <3>5 DEF Pausing, q, pauses
  <2>9. CASE q[n].kind # "pause"
    <3>1. Halted' = Halted
      BY <1>0, <2>1, <2>2, <2>9 DEF Halted
    <3> HIDE DEF pauses
    <3>2. pauses' = pauses
      BY <1>00, <2>5, <2>9
    <3>3. ctl \in {"pause", "wait"} => pauses' + Cardinality(Halted') = k
      BY <3>1, <3>2 DEF Pausing, q, pauses
    <3> QED BY <2>2, <2>3, <2>4, <2>5, <3>1, <3>3 DEF Pausing, q, pauses
  <2> QED BY <2>8, <2>9
<1>3. ASSUME NEW w \in Threads, Run(w) \/ RunNotify(w) \/ RunPost(w) \/ PauseSleep(w) \/ PauseWake(w)
      PROVE  Pausing'
  <2>1. q' = q /\ UNCHANGED <<ctl, k, m_resume>>
    BY <1>3 DEF Run, RunNotify, RunPost, PauseSleep, PauseWake
  <2>2. Ready' = Ready /\ Halted' = Halted /\ Live' = Live
    BY <1>0, <1>3 DEF Run, RunNotify, RunPost, PauseSleep, PauseWake, Goto, Ready, Halted, Live
  <2> QED BY <1>1, <2>1, <2>2
<1>4. ASSUME NEW w \in Threads, PauseLock(w)
      PROVE  Pausing'
  <2>1. /\ q' = q /\ UNCHANGED <<ctl, k, m_resume>> /\ pc[w] = "lock"
        /\ pc' = [pc EXCEPT ![w] = "test"]
    BY <1>4 DEF PauseLock, Goto
  <2>2. Halted' = Halted /\ Live' = Live /\ w \in Halted /\ w \notin Ready
    BY <1>0, <2>1 DEF Ready, Halted, Live
  <2>3. ctl \in {"pause", "wait"}
    BY <2>2 DEF Pausing
  <2> QED BY <2>1, <2>2, <2>3 DEF Pausing
<1>5. ASSUME NEW w \in Threads, PauseTest(w)
      PROVE  Pausing'
  <2>1. /\ q' = q /\ UNCHANGED <<ctl, k, m_resume>> /\ pc[w] = "test"
        /\ pc' = [pc EXCEPT ![w] = IF m_resume THEN "pop" ELSE "falling"]
    BY <1>5 DEF PauseTest
  <2>2. CASE m_resume
    <3>1. Halted' = Halted \ {w} /\ Ready' = Ready \ {w} /\ Live' = Live
      BY <1>0, <2>1, <2>2 DEF Ready, Halted, Live
    <3> QED BY <2>1, <2>2, <3>1 DEF Pausing
  <2>3. CASE ~m_resume
    <3>1. Halted' = Halted /\ Ready' = Ready /\ Live' = Live
      BY <1>0, <2>1, <2>3 DEF Ready, Halted, Live
    <3> QED BY <1>1, <2>1, <3>1
  <2> QED BY <2>2, <2>3
<1>6. ASSUME NEW t \in Tasks, NEW p \in Priorities, AddTask(t, p)
      PROVE  Pausing'
  <2>1. /\ q' = Append(q, Job(t, p)) /\ Live' = Live /\ Halted' = Halted /\ Ready' = Ready
        /\ UNCHANGED <<ctl, k, m_resume>>
    BY <1>6 DEF AddTask, PQ!Push, Live, Ready, Halted
  <2>2. Places(q', "pause") = Places(q, "pause") /\ Places(q', "kill") = Places(q, "kill")
    <3>1. Job(t, p) \in Items /\ Job(t, p).kind # "pause" /\ Job(t, p).kind # "kill"
      BY ItemFields
    <3> QED BY <1>0, <2>1, <3>1, PlacesKept
  <2> HIDE DEF q
  <2> QED BY <2>1, <2>2 DEF Pausing, q
<1>7. CASE PausePush
  <2>1. /\ q' = Append(q, PauseTask) /\ Live' = Live /\ Halted' = Halted /\ Ready' = Ready
        /\ ctl = "pause" /\ ctl' \in {"pause", "wait"} /\ k' = k + 1 /\ m_resume' = m_resume
    BY <1>7 DEF PausePush, PQ!Push, Live, Ready, Halted
  <2>2. pauses' = pauses + 1 /\ Places(q', "kill") = Places(q, "kill")
    <3>1. PauseTask \in Items /\ PauseTask.kind = "pause" /\ PauseTask.kind # "kill"
      BY ItemFields
    <3>2. Places(q', "kill") = Places(q, "kill")
      BY <1>0, <2>1, <3>1, PlacesKept
    <3>3. pauses' = pauses + 1
      BY <1>0, <2>1, <3>1, PlacesPush
    <3> QED BY <3>2, <3>3
  <2>3. pauses + Cardinality(Halted) = k
    BY <2>1 DEF Pausing
  <2>4. pauses' + Cardinality(Halted') = k'
    BY <1>00, <1>000, <2>1, <2>2, <2>3
  <2> HIDE DEF q
  <2> QED BY <2>1, <2>2, <2>4 DEF Pausing, q
<1>8. CASE Shrink \/ DestroyPush
  <2>1. /\ q' = Append(q, Kill) /\ Live' = Live /\ Halted' = Halted /\ Ready' = Ready
        /\ ctl \in {"resize", "pills"} /\ ctl' \in {"resize", "pills", "join"}
        /\ m_resume' = m_resume
    BY <1>8 DEF Shrink, DestroyPush, PQ!Push, Live, Ready, Halted
  <2>2. Places(q', "pause") = Places(q, "pause")
    <3>1. Kill \in Items /\ Kill.kind # "pause"
      BY ItemFields
    <3> QED BY <1>0, <2>1, <3>1, PlacesKept
  <2> HIDE DEF q
  <2> QED BY <2>1, <2>2 DEF Pausing, q
<1>9. ASSUME NEW w \in Threads, Grow(w)
      PROVE  Pausing'
  <2>1. /\ pc[w] = "none" /\ pc' = [pc EXCEPT ![w] = "pop"] /\ q' = q
        /\ ctl = "resize" /\ ctl' = "resize" /\ m_resume' = m_resume
    BY <1>9 DEF Grow, Goto
  <2>2. Ready' = Ready /\ Halted' = Halted
    BY <1>0, <2>1 DEF Ready, Halted
  <2> QED BY <2>1, <2>2 DEF Pausing
<1>10. CASE ResumeNotify
  <2>1. Ready' = Ready /\ Halted' = Halted
    BY <1>0, <1>10 DEF ResumeNotify, Ready, Halted
  <2>2. q' = q /\ ctl = "notify" /\ ctl' = "idle" /\ m_resume' = m_resume
    BY <1>10 DEF ResumeNotify
  <2> QED BY <2>1, <2>2 DEF Pausing
<1>11. CASE PauseSpin
  <2>1. /\ Ready' = Ready /\ Halted' = Halted /\ q' = q /\ ctl = "spin" /\ ctl' = "pause"
        /\ m_resume' = FALSE /\ k' = 0 /\ m_pause_ready = 0
    BY <1>11 DEF PauseSpin, Ready, Halted
  <2>2. Ready = {} /\ Halted = {} /\ Places(q, "pause") = {}
    BY <1>000, <2>1, FS_EmptySet DEF Gate, Pausing
  <2>3. Cardinality(Places(q, "pause")) + Cardinality(Halted) = 0
    BY <2>2, FS_EmptySet
  <2> QED BY <2>1, <2>2, <2>3 DEF Pausing
<1>12. CASE PauseReturn
  <2>1. /\ Ready' = Ready /\ Halted' = Halted /\ Live' = Live /\ q' = q
        /\ ctl = "wait" /\ ctl' = "paused" /\ m_resume' = m_resume
        /\ m_pause_ready >= m_thread_num
    BY <1>12 DEF PauseReturn, Ready, Halted, Live
  <2>2. Cardinality(Ready) >= m_thread_num /\ k = m_thread_num
    BY <2>1 DEF Gate, Counters
  <2>3. Ready # {} /\ Places(q, "kill") = {}
    <3>1. Ready # {}
      BY <1>0, <1>000, <2>2, FS_EmptySet
    <3> QED BY <1>000, <2>1, <3>1 DEF Pausing
  <2>4. Cardinality(Live) = m_thread_num
    <3>1. Workforce = m_thread_num
      BY <2>1 DEF Workforce, Destroying
    <3>2. Cardinality(Places(q, "kill")) = 0
      BY <2>3, FS_EmptySet
    <3> QED BY <1>0, <3>1, <3>2 DEF LiveCount
  <2>5. Ready = Live /\ Halted = Live
    <3>1. Ready \in SUBSET Live
      BY <1>000
    <3>2. Cardinality(Ready) <= Cardinality(Live)
      BY <1>000, <3>1, FS_Subset
    <3>3. Cardinality(Live) = Cardinality(Ready)
      BY <1>0, <1>000, <2>2, <2>4, <3>2
    <3>4. Ready = Live
      BY <1>000, <3>1, <3>3, FS_Subset
    <3> QED BY <1>000, <3>4
  <2>6. Places(q, "pause") = {}
    <3>1. pauses + Cardinality(Halted) = k
      BY <2>1 DEF Pausing
    <3>2. pauses + m_thread_num = m_thread_num
      BY <2>2, <2>4, <2>5, <3>1
    <3>3. pauses = 0
      BY <1>0, <1>00, <3>2
    <3> QED BY <1>00, <3>3
  <2> QED BY <2>1, <2>5, <2>6 DEF Pausing
<1>13. CASE \/ Pause \/ (\E n \in Counts : SetNumThreads(n)) \/ Destroy \/ Resized
            \/ Resume \/ LoggerStop \/ LoggerNotify \/ LoggerClose
  <2>1. Ready' = Ready /\ Halted' = Halted /\ Live' = Live /\ q' = q
    BY <1>13 DEF Pause, SetNumThreads, Destroy, Resume, Resized, LoggerStop, LoggerNotify,
       LoggerClose, Live, Ready, Halted
  <2>2. /\ ctl' \notin {"pause", "wait", "paused"} /\ ctl \notin {"pause", "wait"}
        /\ m_resume' \/ (m_resume' = m_resume /\ ctl # "paused")
        /\ ctl' \in {"stop", "stopNotify", "stopJoin", "end"} =>
             ctl \in {"stop", "stopNotify", "stopJoin", "end"}
    BY <1>13 DEF Pause, SetNumThreads, Destroy, Resume, Resized, LoggerStop, LoggerNotify,
       LoggerClose
  <2> QED BY <2>1, <2>2 DEF Pausing
<1>14. CASE DestroyJoin
  <2>1. /\ Ready' = Ready /\ Halted' = Halted /\ Live' = Live /\ q' = q
        /\ ctl = "join" /\ ctl' = "stop" /\ m_resume' = m_resume
    BY <1>14 DEF DestroyJoin, Ready, Halted, Live
  <2>2. Live = {}
    BY <1>14 DEF DestroyJoin, Live
  <2> QED BY <2>1, <2>2 DEF Pausing
<1>15. CASE (\E t \in Tasks : GetOutput(t)) \/ LogPop \/ LogRun \/ UNCHANGED vars
  BY <1>1, <1>15 DEF GetOutput, LogPop, LogRun, vars, Live, Ready, Halted
<1> QED BY <1>2, <1>3, <1>4, <1>5, <1>6, <1>7, <1>8, <1>9, <1>10, <1>11, <1>12, <1>13,
           <1>14, <1>15 DEF Next, Returns, Worker

(* Resume misses one worker at most: the one that holds the mutex.         *)
LEMMA StragglerNext ==
  ASSUME TypeOK, InQueue, Gate, Pausing, Straggler, [Next]_vars
  PROVE  Straggler'
<1> USE DEF poolVars, workVars, ctlVars, Call
<1>0. pc \in [Threads -> PCs]
  BY DEF TypeOK, PCs
<1>1. ASSUME \A w \in Threads : pc'[w] \in {"falling", "asleep"} =>
               pc[w] \in {"falling", "asleep"},
             \/ ctl' \in {"pause", "wait", "paused", "notify"}
             \/ ctl \notin {"pause", "wait", "paused", "notify"}
      PROVE  Straggler'
  BY <1>1 DEF Straggler
<1>2. ASSUME NEW w \in Threads, Worker(w), ~PauseTest(w)
      PROVE  Straggler'
  <2>1. ctl' = ctl
    BY <1>2 DEF Worker, ThreadFunc, Run, RunNotify, RunPost, PauseLock, PauseSleep, PauseWake
  <2>2. CASE ThreadFunc(w)
    <3>1. \E s \in {"run", "lock", "gone"} : pc' = [pc EXCEPT ![w] = s]
      BY <2>2, PopStep
    <3> QED BY <1>0, <1>1, <2>1, <3>1
  <2>3. CASE Run(w) \/ RunNotify(w) \/ RunPost(w) \/ PauseLock(w) \/ PauseSleep(w) \/ PauseWake(w)
    <3>1. \A v \in Threads : pc'[v] \in {"falling", "asleep"} => pc[v] \in {"falling", "asleep"}
      BY <1>0, <2>3 DEF Run, RunNotify, RunPost, PauseLock, PauseSleep, PauseWake, Goto
    <3> QED BY <1>1, <2>1, <3>1
  <2> QED BY <1>2, <2>2, <2>3 DEF Worker
<1>3. ASSUME NEW w \in Threads, PauseTest(w)
      PROVE  Straggler'
  <2>1. ctl' = ctl /\ pc[w] = "test"
        /\ pc' = [pc EXCEPT ![w] = IF m_resume THEN "pop" ELSE "falling"]
    BY <1>3 DEF PauseTest
  <2>2. CASE m_resume
    BY <1>0, <1>1, <2>1, <2>2
  <2>3. CASE ~m_resume
    <3>1. w \in Ready
      BY <2>1 DEF Ready
    <3>2. ctl \in {"pause", "wait", "paused"}
      BY <2>3, <3>1 DEF Pausing
    <3> QED BY <2>1, <3>2 DEF Straggler
  <2> QED BY <2>2, <2>3
<1>4. CASE ResumeNotify
  <2>1. \A w \in Threads : pc'[w] \in {"falling", "asleep"} => pc[w] = "falling"
    BY <1>0, <1>4 DEF ResumeNotify
  <2> QED BY <2>1 DEF Gate, Straggler
<1>5. ASSUME NEW w \in Threads, Grow(w)
      PROVE  Straggler'
  BY <1>0, <1>1, <1>5 DEF Grow, Goto
<1>6. CASE \/ \E t \in Tasks : GetOutput(t) \/ \E p \in Priorities : AddTask(t, p)
           \/ LogPop \/ LogRun \/ UNCHANGED vars
  BY <1>1, <1>6 DEF GetOutput, AddTask, LogPop, LogRun, vars
<1>7. CASE \/ Pause \/ (\E n \in Counts : SetNumThreads(n)) \/ Destroy
           \/ PauseSpin \/ PausePush \/ PauseReturn \/ Resume \/ Resized \/ Shrink
           \/ DestroyPush \/ DestroyJoin \/ LoggerStop \/ LoggerNotify \/ LoggerClose
  BY <1>1, <1>7
     DEF Pause, SetNumThreads, Destroy, PauseSpin, PausePush, PauseReturn, Resume, Resized,
         Shrink, DestroyPush, DestroyJoin, LoggerStop, LoggerNotify, LoggerClose
<1> QED BY <1>2, <1>3, <1>4, <1>5, <1>6, <1>7 DEF Next, Returns

(* Types.                                                                  *)
LEMMA TypeNext ==
  ASSUME TypeOK, InQueue, AtWorker, Gate, Counters, Log, [Next]_vars, Gate', Counters'
  PROVE  TypeOK'
<1> USE DEF poolVars, workVars, ctlVars, logVars, Call
<1> DEFINE States == {"new", "accepted", "running", "computed", "posted", "delivered"}
           L == Tasks \cup {Stop}
<1>0. /\ pc \in [Threads -> PCs] /\ item \in [Threads -> Items] /\ m_tasks_pq \in Seq(Items)
      /\ task \in [Tasks -> States] /\ m_wq \in Seq(L) /\ m_fout \in Seq(L)
      /\ Nothing \in Items
  BY ItemFields DEF TypeOK, PCs
<1>00. \A w \in Threads : pc[w] \in Working => item[w].task \in Tasks
  BY <1>0, ItemFields DEF AtWorker
<1>000. m_pause_ready' \in 0 .. Cardinality(Threads) /\ m_thread_num' \in Nat
  <2>1. Ready' \in SUBSET Threads
    BY DEF Ready
  <2> QED BY <2>1, WorkersFinite DEF Gate, Counters
<1>1. /\ pc' \in [Threads -> PCs] /\ item' \in [Threads -> Items]
      /\ m_tasks_pq' \in Seq(Items)
  <2>1. ASSUME NEW w \in Threads, ThreadFunc(w)
        PROVE  /\ pc' \in [Threads -> PCs] /\ item' \in [Threads -> Items]
               /\ m_tasks_pq' \in Seq(Items)
    <3>1. PICK n \in DOMAIN m_tasks_pq :
            /\ m_tasks_pq[n] \in Items
            /\ m_tasks_pq' = Rest(m_tasks_pq, n)
            /\ item' = [item EXCEPT ![w] = m_tasks_pq[n]]
            /\ \E s \in PCs : pc' = [pc EXCEPT ![w] = s]
      BY <2>1, PopStep DEF PCs
    <3>2. m_tasks_pq' \in Seq(Items)
      BY <1>0, <3>1, RestElements
    <3> QED BY <1>0, <3>1, <3>2
  <2>2. ASSUME NEW w \in Threads, (Worker(w) /\ ~ThreadFunc(w)) \/ Grow(w)
        PROVE  /\ pc' \in [Threads -> PCs] /\ item' \in [Threads -> Items]
               /\ m_tasks_pq' \in Seq(Items)
    <3>1. /\ m_tasks_pq' = m_tasks_pq
          /\ item' = item \/ item' = [item EXCEPT ![w] = Nothing]
          /\ \E s \in PCs : pc' = [pc EXCEPT ![w] = s]
      BY <2>2 DEF Worker, Run, RunNotify, RunPost, PauseLock, PauseTest, PauseSleep,
         PauseWake, Grow, Goto, PCs
    <3> QED BY <1>0, <3>1
  <2>3. CASE ResumeNotify
    BY <1>0, <2>3 DEF ResumeNotify, PCs
  <2>4. CASE \/ \E t \in Tasks, p \in Priorities : AddTask(t, p)
             \/ PausePush \/ Shrink \/ DestroyPush
    <3>1. \E x \in Items : m_tasks_pq' = Append(m_tasks_pq, x) /\ UNCHANGED <<pc, item>>
      BY <2>4, ItemFields DEF AddTask, PausePush, Shrink, DestroyPush, PQ!Push
    <3> QED BY <1>0, <3>1, PushElements
  <2>5. CASE \/ \E t \in Tasks : GetOutput(t)
             \/ Pause \/ (\E n \in Counts : SetNumThreads(n)) \/ Destroy
             \/ PauseSpin \/ PauseReturn \/ Resume \/ Resized
             \/ DestroyJoin \/ LoggerStop \/ LoggerNotify \/ LoggerClose
             \/ LogPop \/ LogRun \/ UNCHANGED vars
    BY <1>0, <2>5
     DEF GetOutput, Pause, SetNumThreads, Destroy, PauseSpin, PauseReturn, Resume, Resized,
         DestroyJoin, LoggerStop, LoggerNotify, LoggerClose, LogPop, LogRun, vars
  <2> QED BY <2>1, <2>2, <2>3, <2>4, <2>5 DEF Next, Returns
<1>2. task' \in [Tasks -> States]
  <2>1. CASE \E w \in Threads : ThreadFunc(w)
    BY <1>0, <2>1 DEF ThreadFunc
  <2>2. CASE \E w \in Threads : RunNotify(w) \/ RunPost(w)
    BY <1>0, <1>00, <2>2 DEF RunNotify, RunPost
  <2>3. CASE \E t \in Tasks : GetOutput(t) \/ \E p \in Priorities : AddTask(t, p)
    BY <1>0, <2>3 DEF GetOutput, AddTask
  <2>4. CASE UNCHANGED task
    BY <1>0, <2>4
  <2>5. \/ \E w \in Threads : ThreadFunc(w) \/ RunNotify(w) \/ RunPost(w)
        \/ \E t \in Tasks : GetOutput(t) \/ \E p \in Priorities : AddTask(t, p)
        \/ UNCHANGED task
    BY DEF Next, Returns, Worker, Run, PauseLock, PauseTest, PauseSleep, PauseWake,
       Pause, SetNumThreads, Destroy, PauseSpin, PausePush, PauseReturn, Resume, ResumeNotify,
       Resized, Shrink, Grow, DestroyPush, DestroyJoin, LoggerStop, LoggerNotify, LoggerClose,
       LogPop, LogRun, vars
  <2> QED BY <2>1, <2>2, <2>3, <2>4, <2>5
<1>3. /\ m_wq' \in Seq(L) /\ m_fout' \in Seq(L) /\ asleep' \subseteq {"log"}
      /\ logger' \in {"pop", "run", "gone"} /\ line' \in L \cup {"none"}
  <2>0. asleep \subseteq {"log"} /\ logger \in {"pop", "run", "gone"} /\ line \in L \cup {"none"}
    BY DEF TypeOK
  <2>1. ASSUME NEW w \in Threads, Run(w)
        PROVE  m_wq' \in Seq(L) /\ UNCHANGED <<asleep, logger, line, m_fout>>
    <3>1. /\ m_wq' = Append(m_wq, item[w].task) /\ UNCHANGED <<asleep, logger, line, m_fout>>
          /\ item[w].task \in L
      BY <1>00, <2>1 DEF Run, LQ!Push, Goto, Working
    <3> QED BY <1>0, <3>1, PushElements
  <2>2. CASE LoggerStop
    <3>1. m_wq' = Append(m_wq, Stop) /\ UNCHANGED <<asleep, logger, line, m_fout>>
      BY <2>2 DEF LoggerStop, LQ!Push
    <3>2. m_wq' \in Seq(L)
      BY <1>0, <3>1, PushElements
    <3> QED BY <1>0, <2>0, <3>1, <3>2
  <2>3. CASE LoggerNotify \/ \E w \in Threads : RunNotify(w)
    BY <1>0, <2>0, <2>3 DEF LoggerNotify, RunNotify, LQ!NotifyOne
  <2>4. CASE LogPop
    <3>1. CASE m_wq # <<>> /\ LQ!PopAt(1) /\ line' = Head(m_wq) /\ logger' = "run"
      <4>1. m_wq' = Rest(m_wq, 1) /\ asleep' = asleep /\ m_fout' = m_fout /\ 1 \in DOMAIN m_wq
        BY <2>4, <3>1, <1>0, EmptySeq, LenProperties
           DEF LogPop, LQ!PopAt, LQ!RemoveAt, Rest, Oldest
      <4>2. m_wq' \in Seq(L)
        BY <1>0, <4>1, RestElements
      <4>3. Head(m_wq) \in L
        BY <1>0, <3>1
      <4> QED BY <1>0, <2>0, <3>1, <4>1, <4>2, <4>3
    <3>2. CASE LQ!Wait("log") /\ UNCHANGED <<line, logger>>
      BY <1>0, <2>0, <2>4, <3>2 DEF LogPop, LQ!Wait
    <3> QED BY <2>4, <3>1, <3>2 DEF LogPop
  <2>5. CASE LogRun
    <3>1. /\ m_fout' = Append(m_fout, line) /\ line' = "none" /\ logger' \in {"gone", "pop"}
          /\ UNCHANGED <<m_wq, asleep>> /\ line \in L
      BY <2>5 DEF LogRun, Log
    <3>2. m_fout' \in Seq(L)
      BY <1>0, <3>1, PushElements
    <3> QED BY <1>0, <2>0, <3>1, <3>2
  <2>6. \/ \E w \in Threads : Run(w) \/ RunNotify(w)
        \/ LoggerStop \/ LoggerNotify \/ LogPop \/ LogRun \/ UNCHANGED logVars
    BY DEF Next, Returns, Worker, ThreadFunc, RunPost, PauseLock, PauseTest, PauseSleep,
       PauseWake, GetOutput, AddTask, Pause, SetNumThreads, Destroy, PauseSpin, PausePush,
       PauseReturn, Resume, ResumeNotify, Resized, Shrink, Grow, DestroyPush, DestroyJoin,
       LoggerClose, vars
  <2> QED BY <1>0, <2>0, <2>1, <2>2, <2>3, <2>4, <2>5, <2>6
<1>4. /\ m_resume' \in BOOLEAN /\ m_mutex' \in Threads \cup {"free"}
      /\ ctl' \in {"idle", "spin", "pause", "wait", "paused", "notify", "resize"} \cup Destroying
  <2>1. m_resume' = m_resume \/ m_resume' = FALSE \/ m_resume' = TRUE
    BY DEF Next, Returns, Worker, ThreadFunc, Run, RunNotify, RunPost, PauseLock, PauseTest,
       PauseSleep, PauseWake, GetOutput, AddTask, Pause, SetNumThreads, Destroy, PauseSpin,
       PausePush, PauseReturn, Resume, ResumeNotify, Resized, Shrink, Grow, DestroyPush,
       DestroyJoin, LoggerStop, LoggerNotify, LoggerClose, LogPop, LogRun, vars
  <2>2. m_mutex' = m_mutex \/ m_mutex' = "free" \/ \E w \in Threads : m_mutex' = w
    BY DEF Next, Returns, Worker, ThreadFunc, Run, RunNotify, RunPost, PauseLock, PauseTest,
       PauseSleep, PauseWake, GetOutput, AddTask, Pause, SetNumThreads, Destroy, PauseSpin,
       PausePush, PauseReturn, Resume, ResumeNotify, Resized, Shrink, Grow, DestroyPush,
       DestroyJoin, LoggerStop, LoggerNotify, LoggerClose, LogPop, LogRun, vars
  <2>3. ctl' = ctl \/ ctl' \in {"idle", "spin", "pause", "wait", "paused", "notify", "resize"}
                               \cup Destroying
    BY DEF Next, Returns, Worker, ThreadFunc, Run, RunNotify, RunPost, PauseLock, PauseTest,
       PauseSleep, PauseWake, GetOutput, AddTask, Pause, SetNumThreads, Destroy, PauseSpin,
       PausePush, PauseReturn, Resume, ResumeNotify, Resized, Shrink, Grow, DestroyPush,
       DestroyJoin, LoggerStop, LoggerNotify, LoggerClose, LogPop, LogRun, vars, Destroying
  <2> QED BY <2>1, <2>2, <2>3 DEF TypeOK
<1> QED BY <1>000, <1>1, <1>2, <1>3, <1>4 DEF TypeOK, PCs

-----------------------------------------------------------------------------
(* The log                                                                 *)

Chain(a, b, c) == a \o b \o c

(* Three sequences one after the other.                                    *)
LEMMA ThreeParts ==
  ASSUME NEW S, NEW a \in Seq(S), NEW b \in Seq(S), NEW c \in Seq(S)
  PROVE  /\ Chain(a, b, c) \in Seq(S)
         /\ Len(a) \in Nat /\ Len(b) \in Nat /\ Len(c) \in Nat
         /\ Len(Chain(a, b, c)) = Len(a) + Len(b) + Len(c)
         /\ \A i \in 1 .. (Len(a) + Len(b) + Len(c)) :
              Chain(a, b, c)[i] = IF i <= Len(a) THEN a[i]
                                  ELSE IF i <= Len(a) + Len(b) THEN b[i - Len(a)]
                                  ELSE c[i - (Len(a) + Len(b))]
<1>1. Len(a) \in Nat /\ Len(b) \in Nat /\ Len(c) \in Nat
  BY LenProperties
<1>2. /\ a \o b \in Seq(S) /\ Len(a \o b) = Len(a) + Len(b)
      /\ \A i \in 1 .. (Len(a) + Len(b)) :
           (a \o b)[i] = IF i <= Len(a) THEN a[i] ELSE b[i - Len(a)]
  BY ConcatProperties
<1> DEFINE d == a \o b
<1> HIDE DEF d
<1>3. /\ d \o c \in Seq(S) /\ Len(d \o c) = Len(d) + Len(c)
      /\ \A i \in 1 .. (Len(d) + Len(c)) :
           (d \o c)[i] = IF i <= Len(d) THEN d[i] ELSE c[i - Len(d)]
  <2>1. d \in Seq(S)
    BY <1>2 DEF d
  <2> QED BY <2>1, ConcatProperties
<1>4. Len(d) = Len(a) + Len(b)
  BY <1>2 DEF d
<1>5. \A i \in 1 .. (Len(a) + Len(b)) : d[i] = IF i <= Len(a) THEN a[i] ELSE b[i - Len(a)]
  BY <1>2 DEF d
<1>6. ASSUME NEW i \in 1 .. (Len(a) + Len(b) + Len(c))
      PROVE  (d \o c)[i] = IF i <= Len(a) THEN a[i]
                           ELSE IF i <= Len(a) + Len(b) THEN b[i - Len(a)]
                           ELSE c[i - (Len(a) + Len(b))]
  <2>1. (d \o c)[i] = IF i <= Len(a) + Len(b) THEN d[i] ELSE c[i - (Len(a) + Len(b))]
    BY <1>3, <1>4
  <2>2. CASE i <= Len(a) + Len(b)
    <3>1. d[i] = IF i <= Len(a) THEN a[i] ELSE b[i - Len(a)]
      BY <1>1, <1>5, <2>2
    <3> QED BY <2>1, <2>2, <3>1, <1>1
  <2>3. CASE ~(i <= Len(a) + Len(b))
    BY <1>1, <2>1, <2>3
  <2> QED BY <2>2, <2>3
<1>7. Chain(a, b, c) = d \o c
  BY DEF d, Chain
<1> QED BY <1>1, <1>3, <1>4, <1>6, <1>7

(* The same, at one position.                                              *)
LEMMA ThreePartsAt ==
  ASSUME NEW S, NEW a \in Seq(S), NEW b \in Seq(S), NEW c \in Seq(S),
         NEW i \in 1 .. (Len(a) + Len(b) + Len(c))
  PROVE  /\ i <= Len(a) => Chain(a, b, c)[i] = a[i]
         /\ i > Len(a) /\ i <= Len(a) + Len(b) => Chain(a, b, c)[i] = b[i - Len(a)]
         /\ i > Len(a) + Len(b) => Chain(a, b, c)[i] = c[i - (Len(a) + Len(b))]
<1>1. Len(a) \in Nat /\ Len(b) \in Nat /\ Len(c) \in Nat
  BY LenProperties
<1>2. Chain(a, b, c)[i] = IF i <= Len(a) THEN a[i]
                          ELSE IF i <= Len(a) + Len(b) THEN b[i - Len(a)]
                          ELSE c[i - (Len(a) + Len(b))]
  BY ThreeParts
<1> QED BY <1>1, <1>2

Record == Tasks \cup {Stop}
Taken  == IF logger = "run" THEN <<line>> ELSE <<>>

(* The lines, one by one.                                                  *)
LEMMA LinesElements ==
  ASSUME TypeOK, Log
  PROVE  /\ Lines \in Seq(Record) /\ Len(m_fout) \in Nat /\ Len(m_wq) \in Nat
         /\ Lines = Chain(m_fout, Taken, m_wq)
         /\ Taken \in Seq(Record) /\ Len(Taken) = IF logger = "run" THEN 1 ELSE 0
         /\ logger = "run" => Taken[1] = line
         /\ Len(Lines) = Len(m_fout) + Len(Taken) + Len(m_wq)
         /\ DOMAIN Lines = 1 .. (Len(m_fout) + Len(Taken) + Len(m_wq))
         /\ \A i \in DOMAIN Lines :
              Lines[i] = IF i <= Len(m_fout) THEN m_fout[i]
                         ELSE IF i <= Len(m_fout) + Len(Taken) THEN line
                         ELSE m_wq[i - (Len(m_fout) + Len(Taken))]
<1>1. m_fout \in Seq(Record) /\ m_wq \in Seq(Record)
  BY DEF TypeOK, Record
<1>2. /\ Taken \in Seq(Record) /\ Len(Taken) = IF logger = "run" THEN 1 ELSE 0
      /\ logger = "run" => Taken[1] = line
  <2>1. CASE logger = "run"
    BY <2>1 DEF Taken, Log, Record
  <2>2. CASE logger # "run"
    BY <2>2, EmptySeq DEF Taken
  <2> QED BY <2>1, <2>2
<1>3. Lines = Chain(m_fout, Taken, m_wq)
  BY DEF Lines, Taken, Chain
<1>4. /\ Lines \in Seq(Record) /\ Len(m_fout) \in Nat /\ Len(m_wq) \in Nat
      /\ Len(Lines) = Len(m_fout) + Len(Taken) + Len(m_wq)
      /\ \A i \in 1 .. (Len(m_fout) + Len(Taken) + Len(m_wq)) :
           Lines[i] = IF i <= Len(m_fout) THEN m_fout[i]
                      ELSE IF i <= Len(m_fout) + Len(Taken) THEN Taken[i - Len(m_fout)]
                      ELSE m_wq[i - (Len(m_fout) + Len(Taken))]
  <2> DEFINE z == Chain(m_fout, Taken, m_wq)
  <2>1. Taken \in Seq(Record) /\ Lines = z
    BY <1>2, <1>3
  <2>2. /\ z \in Seq(Record) /\ Len(m_fout) \in Nat /\ Len(m_wq) \in Nat
        /\ Len(z) = Len(m_fout) + Len(Taken) + Len(m_wq)
    BY <1>1, <2>1, ThreeParts
  <2>3. \A i \in 1 .. (Len(m_fout) + Len(Taken) + Len(m_wq)) :
          z[i] = IF i <= Len(m_fout) THEN m_fout[i]
                 ELSE IF i <= Len(m_fout) + Len(Taken) THEN Taken[i - Len(m_fout)]
                 ELSE m_wq[i - (Len(m_fout) + Len(Taken))]
    <3> SUFFICES ASSUME NEW i \in 1 .. (Len(m_fout) + Len(Taken) + Len(m_wq))
                 PROVE  z[i] = IF i <= Len(m_fout) THEN m_fout[i]
                               ELSE IF i <= Len(m_fout) + Len(Taken) THEN Taken[i - Len(m_fout)]
                               ELSE m_wq[i - (Len(m_fout) + Len(Taken))]
      OBVIOUS
    <3>1. /\ i <= Len(m_fout) => z[i] = m_fout[i]
          /\ i > Len(m_fout) /\ i <= Len(m_fout) + Len(Taken) => z[i] = Taken[i - Len(m_fout)]
          /\ i > Len(m_fout) + Len(Taken) => z[i] = m_wq[i - (Len(m_fout) + Len(Taken))]
      BY <1>1, <2>1, ThreePartsAt
    <3>2. Len(m_fout) \in Nat /\ Len(Taken) \in Nat /\ i \in Nat
      BY <1>2, <2>2
    <3> HIDE DEF z
    <3> QED BY <3>1, <3>2
  <2> HIDE DEF z
  <2> QED BY <2>1, <2>2, <2>3
<1>5. DOMAIN Lines = 1 .. (Len(m_fout) + Len(Taken) + Len(m_wq))
  BY <1>4, LenProperties
<1>6. ASSUME NEW i \in DOMAIN Lines
      PROVE  Lines[i] = IF i <= Len(m_fout) THEN m_fout[i]
                        ELSE IF i <= Len(m_fout) + Len(Taken) THEN line
                        ELSE m_wq[i - (Len(m_fout) + Len(Taken))]
  <2>1. CASE i > Len(m_fout) /\ i <= Len(m_fout) + Len(Taken)
    <3>1. logger = "run" /\ i - Len(m_fout) = 1
      BY <1>2, <1>4, <1>5, <2>1
    <3>2. Lines[i] = Taken[i - Len(m_fout)]
      BY <1>4, <1>5, <2>1
    <3> QED BY <1>2, <1>4, <1>5, <2>1, <3>1, <3>2
  <2>2. CASE ~(i > Len(m_fout) /\ i <= Len(m_fout) + Len(Taken))
    <3>1. Len(Taken) \in Nat /\ i \in Nat
      BY <1>2, <1>5
    <3> QED BY <1>4, <1>5, <2>2, <3>1
  <2> QED BY <2>1, <2>2
<1> QED BY <1>2, <1>3, <1>4, <1>5, <1>6

(* A new line comes last.                                                  *)
LEMMA LinesPush ==
  ASSUME TypeOK, Log, NEW x \in Record, m_wq' = Append(m_wq, x),
         UNCHANGED <<logger, line, m_fout>>
  PROVE  /\ DOMAIN Lines = 1 .. Len(Lines) /\ Len(Lines) \in Nat
         /\ Len(Lines') = Len(Lines) + 1 /\ DOMAIN Lines' = 1 .. (Len(Lines) + 1)
         /\ \A i \in 1 .. (Len(Lines) + 1) :
              Lines'[i] = IF i = Len(Lines) + 1 THEN x ELSE Lines[i]
<1> DEFINE e == m_fout \o Taken
<1>1. e \in Seq(Record) /\ m_wq \in Seq(Record)
  BY LinesElements, ConcatProperties DEF TypeOK, Record
<1>2. Lines = e \o m_wq /\ Lines' = e \o Append(m_wq, x)
  BY DEF Lines, Taken
<1> HIDE DEF e
<1>3. /\ Len(e) \in Nat /\ Len(m_wq) \in Nat /\ Lines \in Seq(Record)
      /\ Len(Lines) = Len(e) + Len(m_wq)
      /\ \A i \in 1 .. (Len(e) + Len(m_wq)) :
           Lines[i] = IF i <= Len(e) THEN e[i] ELSE m_wq[i - Len(e)]
  BY <1>1, <1>2, ConcatProperties, LenProperties
<1>4. /\ Append(m_wq, x) \in Seq(Record) /\ Len(Append(m_wq, x)) = Len(m_wq) + 1
      /\ \A i \in 1 .. (Len(m_wq) + 1) :
           Append(m_wq, x)[i] = IF i = Len(m_wq) + 1 THEN x ELSE m_wq[i]
  BY <1>1, PushElements
<1>5. /\ Lines' \in Seq(Record) /\ Len(Lines') = Len(e) + Len(Append(m_wq, x))
      /\ \A i \in 1 .. (Len(e) + Len(Append(m_wq, x))) :
           Lines'[i] = IF i <= Len(e) THEN e[i] ELSE Append(m_wq, x)[i - Len(e)]
  BY <1>1, <1>2, <1>4, ConcatProperties
<1>6. Len(Lines') = Len(Lines) + 1
  BY <1>3, <1>4, <1>5
<1>7. ASSUME NEW i \in 1 .. (Len(Lines) + 1)
      PROVE  Lines'[i] = IF i = Len(Lines) + 1 THEN x ELSE Lines[i]
  <2>1. Lines'[i] = IF i <= Len(e) THEN e[i] ELSE Append(m_wq, x)[i - Len(e)]
    <3>1. Len(Lines) + 1 = Len(e) + Len(Append(m_wq, x))
      BY <1>3, <1>4
    <3> QED BY <1>5, <3>1
  <2>2. CASE i <= Len(e)
    BY <1>3, <2>1, <2>2
  <2>3. CASE ~(i <= Len(e))
    <3>1. i - Len(e) \in 1 .. (Len(m_wq) + 1) /\ (i - Len(e) = Len(m_wq) + 1 <=> i = Len(Lines) + 1)
      BY <1>3, <2>3
    <3>2. Lines'[i] = IF i = Len(Lines) + 1 THEN x ELSE m_wq[i - Len(e)]
      <4>1. Lines'[i] = Append(m_wq, x)[i - Len(e)]
        BY <2>1, <2>3
      <4> QED BY <1>4, <3>1, <4>1
    <3>3. i # Len(Lines) + 1 => Lines[i] = m_wq[i - Len(e)]
      <4> SUFFICES ASSUME i # Len(Lines) + 1 PROVE Lines[i] = m_wq[i - Len(e)]
        OBVIOUS
      <4>1. i \in 1 .. (Len(e) + Len(m_wq))
        BY <1>3
      <4> QED BY <1>3, <2>3, <4>1
    <3> QED BY <3>2, <3>3
  <2> QED BY <2>2, <2>3
<1> QED BY <1>3, <1>5, <1>6, <1>7, LenProperties

(* The log thread takes a line.                                            *)
LEMMA LinesTaken ==
  ASSUME TypeOK, Log, LogPop
  PROVE  Lines' = Lines /\ (logger' = "run" => line' \in Record) /\ logger' # "gone"
         /\ m_fout' = m_fout
<1>1. logger = "pop" /\ m_fout' = m_fout
  BY DEF LogPop
<1>2. CASE UNCHANGED <<m_wq, logger, line>>
  BY <1>1, <1>2 DEF Lines
<1>3. CASE m_wq # <<>> /\ LQ!PopAt(1) /\ line' = Head(m_wq) /\ logger' = "run"
  <2>1. /\ m_wq \in Seq(Record) /\ m_fout \in Seq(Record) /\ Len(m_wq) \in Nat
        /\ 1 \in DOMAIN m_wq /\ m_wq' = Rest(m_wq, 1)
        /\ Head(m_wq) = m_wq[1] /\ m_wq[1] \in Record /\ Len(m_wq) > 0
    BY <1>3, EmptySeq, LenProperties DEF TypeOK, Record, LQ!PopAt, LQ!RemoveAt, Rest, Oldest
  <2> DEFINE r == Rest(m_wq, 1)
             h == <<m_wq[1]>>
  <2>2. /\ r \in Seq(Record) /\ Len(r) = Len(m_wq) - 1
        /\ \A i \in 1 .. (Len(m_wq) - 1) : r[i] = m_wq[i + 1]
    <3>1. /\ r \in Seq(Record) /\ Len(r) = Len(m_wq) - 1
          /\ \A i \in DOMAIN r : r[i] = m_wq[Skip(1, i)]
      BY <2>1, RestElements
    <3>2. DOMAIN r = 1 .. (Len(m_wq) - 1)
      BY <3>1, LenProperties
    <3>3. \A i \in 1 .. (Len(m_wq) - 1) : Skip(1, i) = i + 1
      BY DEF Skip
    <3> QED BY <3>1, <3>2, <3>3
  <2>3. h \in Seq(Record) /\ Len(h) = 1 /\ h[1] = m_wq[1]
    BY <2>1
  <2>4. Lines' = Chain(m_fout, h, r)
    BY <1>1, <1>3, <2>1 DEF Lines, Chain
  <2> HIDE DEF r, h
  <2>5. /\ Lines' \in Seq(Record) /\ Len(Lines') = Len(m_fout) + 1 + Len(r)
        /\ Len(m_fout) \in Nat
        /\ \A i \in 1 .. (Len(m_fout) + 1 + Len(r)) :
             Lines'[i] = IF i <= Len(m_fout) THEN m_fout[i]
                         ELSE IF i <= Len(m_fout) + 1 THEN h[i - Len(m_fout)]
                         ELSE r[i - (Len(m_fout) + 1)]
    <3> DEFINE z == Chain(m_fout, h, r)
    <3>1. h \in Seq(Record) /\ r \in Seq(Record) /\ m_fout \in Seq(Record) /\ Lines' = z
      BY <2>1, <2>2, <2>3, <2>4
    <3>2. /\ z \in Seq(Record) /\ Len(m_fout) \in Nat
          /\ Len(z) = Len(m_fout) + Len(h) + Len(r)
      BY <3>1, ThreeParts
    <3>3. \A i \in 1 .. (Len(m_fout) + Len(h) + Len(r)) :
            z[i] = IF i <= Len(m_fout) THEN m_fout[i]
                   ELSE IF i <= Len(m_fout) + Len(h) THEN h[i - Len(m_fout)]
                   ELSE r[i - (Len(m_fout) + Len(h))]
      <4> SUFFICES ASSUME NEW i \in 1 .. (Len(m_fout) + Len(h) + Len(r))
                   PROVE  z[i] = IF i <= Len(m_fout) THEN m_fout[i]
                                 ELSE IF i <= Len(m_fout) + Len(h) THEN h[i - Len(m_fout)]
                                 ELSE r[i - (Len(m_fout) + Len(h))]
        OBVIOUS
      <4>1. /\ i <= Len(m_fout) => z[i] = m_fout[i]
            /\ i > Len(m_fout) /\ i <= Len(m_fout) + Len(h) => z[i] = h[i - Len(m_fout)]
            /\ i > Len(m_fout) + Len(h) => z[i] = r[i - (Len(m_fout) + Len(h))]
        BY <3>1, ThreePartsAt
      <4>2. Len(m_fout) \in Nat /\ Len(h) \in Nat /\ i \in Nat
        BY <2>2, <2>3, <3>2
      <4> HIDE DEF z
      <4> QED BY <4>1, <4>2
    <3>4. Len(h) = 1
      BY <2>3
    <3> HIDE DEF z
    <3> QED BY <3>1, <3>2, <3>3, <3>4
  <2>6. /\ Lines \in Seq(Record) /\ Len(Lines) = Len(m_fout) + Len(m_wq)
        /\ \A i \in 1 .. (Len(m_fout) + Len(m_wq)) :
             Lines[i] = IF i <= Len(m_fout) THEN m_fout[i] ELSE m_wq[i - Len(m_fout)]
    <3>1. Len(Taken) = 0
      BY <1>1, LinesElements
    <3>2. Len(m_fout) + Len(Taken) = Len(m_fout) /\ Len(m_fout) + Len(Taken) + Len(m_wq) = Len(m_fout) + Len(m_wq)
      BY <2>1, <2>5, <3>1
    <3>3. /\ Lines \in Seq(Record)
          /\ Len(Lines) = Len(m_fout) + Len(m_wq)
          /\ DOMAIN Lines = 1 .. (Len(m_fout) + Len(m_wq))
          /\ \A i \in DOMAIN Lines :
              Lines[i] = IF i <= Len(m_fout) THEN m_fout[i]
                         ELSE IF i <= Len(m_fout) THEN line
                         ELSE m_wq[i - Len(m_fout)]
      BY <3>2, LinesElements
    <3> QED BY <3>3
  <2>7. Len(Lines') = Len(Lines)
    BY <2>1, <2>2, <2>5, <2>6
  <2>8. ASSUME NEW i \in 1 .. Len(Lines)
        PROVE  Lines'[i] = Lines[i]
    <3>1. i \in 1 .. (Len(m_fout) + 1 + Len(r)) /\ i \in 1 .. (Len(m_fout) + Len(m_wq))
      BY <2>1, <2>2, <2>5, <2>6
    <3>2. CASE i <= Len(m_fout)
      BY <2>5, <2>6, <3>1, <3>2
    <3>3. CASE i = Len(m_fout) + 1
      <4>1. i - Len(m_fout) = 1 /\ ~(i <= Len(m_fout)) /\ i <= Len(m_fout) + 1
        BY <2>5, <3>3
      <4>2. Lines'[i] = h[1] /\ Lines[i] = m_wq[1]
        BY <2>5, <2>6, <3>1, <4>1
      <4> QED BY <2>3, <4>2
    <3>4. CASE i > Len(m_fout) + 1
      <4>1. /\ ~(i <= Len(m_fout)) /\ ~(i <= Len(m_fout) + 1)
            /\ i - (Len(m_fout) + 1) \in 1 .. (Len(m_wq) - 1)
            /\ (i - (Len(m_fout) + 1)) + 1 = i - Len(m_fout)
        BY <2>1, <2>5, <3>1, <3>4
      <4>2. Lines'[i] = r[i - (Len(m_fout) + 1)] /\ Lines[i] = m_wq[i - Len(m_fout)]
        BY <2>5, <2>6, <3>1, <4>1
      <4> QED BY <2>2, <4>1, <4>2
    <3> QED BY <2>5, <3>1, <3>2, <3>3, <3>4
  <2>9. Lines' = Lines
    <3>1. \A i \in 1 .. Len(Lines') : Lines'[i] = Lines[i]
      BY <2>7, <2>8
    <3> QED BY <2>5, <2>6, <2>7, <3>1, SeqEqual
  <2> QED BY <1>1, <1>3, <2>1, <2>9
<1> QED BY <1>1, <1>2, <1>3 DEF LogPop, LQ!Wait, Log, Record

(* The log thread writes the line it has taken.                            *)
LEMMA LinesWritten ==
  ASSUME TypeOK, Log, LogRun
  PROVE  /\ Lines' = Lines /\ logger' # "run"
         /\ logger' = "gone" => m_fout' # <<>> /\ m_fout'[Len(m_fout')] = Stop
<1>1. /\ logger = "run" /\ m_fout' = Append(m_fout, line) /\ m_wq' = m_wq
      /\ logger' = (IF line = Stop THEN "gone" ELSE "pop") /\ line \in Record
      /\ m_fout \in Seq(Record) /\ m_wq \in Seq(Record)
  BY DEF LogRun, TypeOK, Log, Record
<1>2. Lines = m_fout \o <<line>> \o m_wq /\ Lines' = Append(m_fout, line) \o <<>> \o m_wq
  BY <1>1 DEF Lines
<1>3. /\ Len(m_fout) \in Nat /\ Append(m_fout, line) \in Seq(Record)
      /\ Len(Append(m_fout, line)) = Len(m_fout) + 1
      /\ Append(m_fout, line)[Len(m_fout) + 1] = line
  BY <1>1, AppendProperties, LenProperties
<1>4. m_fout \o <<line>> = Append(m_fout, line)
  BY <1>1, AppendIsConcat
<1>5. Append(m_fout, line) \o <<>> = Append(m_fout, line)
  BY <1>3, ConcatEmptySeq
<1>6. Lines' = Lines
  BY <1>2, <1>4, <1>5
<1>7. logger' = "gone" => m_fout' # <<>> /\ m_fout'[Len(m_fout')] = Stop
  <2>1. Append(m_fout, line) # <<>>
    BY <1>3, EmptySeq
  <2> QED BY <1>1, <1>3, <2>1
<1> QED BY <1>1, <1>6, <1>7

(* Every task logs its line once, and the stop record comes last.          *)
LEMMA LogNext ==
  ASSUME TypeOK, InQueue, AtWorker, Pausing, Log, [Next]_vars
  PROVE  Log'
<1> USE DEF poolVars, workVars, ctlVars, logVars, Call
<1>0. /\ pc \in [Threads -> PCs] /\ item \in [Threads -> Items]
      /\ task \in [Tasks -> {"new", "accepted", "running", "computed", "posted", "delivered"}]
  BY DEF TypeOK, PCs
<1>00. \A w \in Threads : pc[w] \in Working => item[w].task \in Tasks
  BY <1>0, ItemFields DEF AtWorker
<1>1. ASSUME Lines' = Lines, Stopped' <=> Stopped, \A t \in Tasks : Logged(t)' <=> Logged(t),
             logger' = "run" => line' \in Tasks \cup {Stop},
             logger' = "gone" => m_fout' # <<>> /\ m_fout'[Len(m_fout')] = Stop,
             ctl' = "end" => logger' = "gone"
      PROVE  Log'
  BY <1>1 DEF Log
<1>2. ASSUME UNCHANGED <<m_wq, logger, line, m_fout>>
      PROVE  /\ Lines' = Lines
             /\ logger' = "run" => line' \in Tasks \cup {Stop}
             /\ logger' = "gone" => m_fout' # <<>> /\ m_fout'[Len(m_fout')] = Stop
             /\ ctl = "end" => logger' = "gone"
  BY <1>2 DEF Log, Lines
<1>3. ASSUME UNCHANGED task, \A w \in Threads : /\ pc'[w] = "notify" <=> pc[w] = "notify"
                                                /\ pc[w] = "notify" => item'[w] = item[w]
      PROVE  \A t \in Tasks : Logged(t)' <=> Logged(t)
  BY <1>3 DEF Logged
<1>4. ASSUME NEW w \in Threads, ThreadFunc(w)
      PROVE  Log'
  <2>1. UNCHANGED <<m_wq, logger, line, m_fout, ctl>> /\ pc[w] = "pop"
    BY <1>4 DEF ThreadFunc
  <2>2. PICK n \in DOMAIN m_tasks_pq :
          /\ m_tasks_pq[n] \in Items
          /\ pc' = [pc EXCEPT ![w] = IF m_tasks_pq[n].kind = "task" THEN "run"
                                     ELSE IF m_tasks_pq[n].kind = "pause" THEN "lock"
                                     ELSE "gone"]
          /\ item' = [item EXCEPT ![w] = m_tasks_pq[n]]
          /\ m_tasks_pq[n].kind = "task" =>
                task' = [task EXCEPT ![m_tasks_pq[n].task] = "running"]
          /\ m_tasks_pq[n].kind # "task" => task' = task
    BY <1>4, PopStep
  <2>3. m_tasks_pq[n].kind = "task" => task[m_tasks_pq[n].task] = "accepted"
    BY DEF InQueue, Places
  <2>4. \A v \in Threads : /\ pc'[v] = "notify" <=> pc[v] = "notify"
                           /\ pc[v] = "notify" => item'[v] = item[v]
    BY <1>0, <2>1, <2>2
  <2>5. \A t \in Tasks : task'[t] \in {"computed", "posted", "delivered"}
                           <=> task[t] \in {"computed", "posted", "delivered"}
    BY <1>0, <2>2, <2>3
  <2>6. \A t \in Tasks : Logged(t)' <=> Logged(t)
    BY <2>4, <2>5 DEF Logged
  <2> QED BY <1>1, <1>2, <2>1, <2>6 DEF Stopped
<1>5. ASSUME NEW w \in Threads, Run(w)
      PROVE  Log'
  <2> DEFINE x == item[w].task
  <2>1. /\ pc[w] = "run" /\ pc' = [pc EXCEPT ![w] = "notify"] /\ m_wq' = Append(m_wq, x)
        /\ UNCHANGED <<item, task, ctl, logger, line, m_fout>>
    BY <1>5 DEF Run, Goto, LQ!Push
  <2>2. x \in Tasks /\ task[x] = "running" /\ x \in Record /\ x # Stop
    <3>1. x \in Tasks /\ task[x] = "running"
      BY <1>00, <2>1 DEF AtWorker, Working
    <3> QED BY <3>1, PoolAssumption DEF Record, Stop
  <2>3. ~Stopped
    <3>1. w \in Live
      BY <2>1 DEF Live
    <3> QED BY <3>1 DEF Pausing, Stopped
  <2>4. ~Logged(x)
    <3>1. \A v \in Threads : pc[v] = "notify" /\ item[v].task = x => v = w
      BY <2>1 DEF AtWorker, Working
    <3> QED BY <2>1, <2>2, <3>1 DEF Logged
  <2>5. /\ DOMAIN Lines = 1 .. Len(Lines) /\ Len(Lines) \in Nat
        /\ Len(Lines') = Len(Lines) + 1 /\ DOMAIN Lines' = 1 .. (Len(Lines) + 1)
        /\ \A i \in 1 .. (Len(Lines) + 1) :
             Lines'[i] = IF i = Len(Lines) + 1 THEN x ELSE Lines[i]
    BY <2>1, <2>2, LinesPush
  <2> HIDE DEF x
  <2>6. \A t \in Tasks : Logged(t)' <=> Logged(t) \/ t = x
    <3>1. \A t \in Tasks : task'[t] = task[t]
      BY <2>1
    <3>2. \A v \in Threads : pc'[v] = "notify" <=> pc[v] = "notify" \/ v = w
      BY <1>0, <2>1
    <3> QED BY <2>1, <3>1, <3>2 DEF Logged, x
  <2>7. \A i \in DOMAIN Lines : Lines[i] # x /\ Lines[i] # Stop
    BY <2>2, <2>3, <2>4 DEF Log
  <2>8. \A i \in DOMAIN Lines' : (i \in DOMAIN Lines /\ Lines'[i] = Lines[i])
                                 \/ (i = Len(Lines) + 1 /\ Lines'[i] = x)
    BY <2>5
  <2>9. \A i \in DOMAIN Lines : i \in DOMAIN Lines' /\ Lines'[i] = Lines[i]
    BY <2>5
  <2>10. Len(Lines) + 1 \in DOMAIN Lines' /\ Lines'[Len(Lines) + 1] = x
    BY <2>5
  <2>11. \A t \in Tasks : Logged(t)' <=> \E n \in DOMAIN Lines' : Lines'[n] = t
    <3> SUFFICES ASSUME NEW t \in Tasks
                 PROVE  Logged(t)' <=> \E n \in DOMAIN Lines' : Lines'[n] = t
      OBVIOUS
    <3>1. Logged(t) <=> \E n \in DOMAIN Lines : Lines[n] = t
      BY DEF Log
    <3> QED BY <2>6, <2>8, <2>9, <2>10, <3>1
  <2>12. \A n, m \in DOMAIN Lines' : Lines'[n] = Lines'[m] => n = m
    BY <2>7, <2>8 DEF Log
  <2>13. \A n \in DOMAIN Lines' : Lines'[n] # Stop
    BY <2>2, <2>7, <2>8
  <2>14. ~Stopped' /\ ctl' # "end"
    BY <2>1, <2>3 DEF Stopped
  <2>15. /\ logger' = "run" => line' \in Tasks \cup {Stop}
         /\ logger' = "gone" => m_fout' # <<>> /\ m_fout'[Len(m_fout')] = Stop
    BY <2>1 DEF Log
  <2> QED BY <2>11, <2>12, <2>13, <2>14, <2>15 DEF Log
<1>6. ASSUME NEW w \in Threads, RunNotify(w)
      PROVE  Log'
  <2>1. /\ UNCHANGED <<m_wq, logger, line, m_fout, ctl, item>> /\ pc[w] = "notify"
        /\ pc' = [pc EXCEPT ![w] = "post"]
        /\ task' = [task EXCEPT ![item[w].task] = "computed"] /\ item[w].task \in Tasks
    BY <1>6, <1>00 DEF RunNotify, Goto, LQ!NotifyOne, Working
  <2>2. ASSUME NEW t \in Tasks
        PROVE  Logged(t)' <=> Logged(t)
    <3>1. \A v \in Threads : pc'[v] = "notify" <=> pc[v] = "notify" /\ v # w
      BY <1>0, <2>1
    <3>2. CASE t = item[w].task
      <4>1. task'[t] = "computed"
        BY <1>0, <2>1, <3>2
      <4> QED BY <2>1, <3>2, <4>1 DEF Logged
    <3>3. CASE t # item[w].task
      <4>1. task'[t] = task[t]
        BY <1>0, <2>1, <3>3
      <4> QED BY <2>1, <3>1, <3>3, <4>1 DEF Logged
    <3> QED BY <3>2, <3>3
  <2> QED BY <1>1, <1>2, <2>1, <2>2 DEF Stopped
<1>7. ASSUME NEW w \in Threads, RunPost(w)
      PROVE  Log'
  <2>1. /\ UNCHANGED <<m_wq, logger, line, m_fout, ctl>> /\ pc[w] = "post"
        /\ pc' = [pc EXCEPT ![w] = "pop"] /\ item' = [item EXCEPT ![w] = Nothing]
        /\ task' = [task EXCEPT ![item[w].task] = "posted"] /\ item[w].task \in Tasks
        /\ task[item[w].task] = "computed"
    BY <1>7, <1>00 DEF RunPost, Goto, Working, AtWorker
  <2>2. \A v \in Threads : /\ pc'[v] = "notify" <=> pc[v] = "notify"
                           /\ pc[v] = "notify" => item'[v] = item[v]
    BY <1>0, <2>1
  <2>3. \A t \in Tasks : task'[t] \in {"computed", "posted", "delivered"}
                           <=> task[t] \in {"computed", "posted", "delivered"}
    BY <1>0, <2>1
  <2>4. \A t \in Tasks : Logged(t)' <=> Logged(t)
    BY <2>2, <2>3 DEF Logged
  <2> QED BY <1>1, <1>2, <2>1, <2>4 DEF Stopped
<1>8. ASSUME NEW t \in Tasks, GetOutput(t) \/ \E p \in Priorities : AddTask(t, p)
      PROVE  Log'
  <2>1. /\ UNCHANGED <<m_wq, logger, line, m_fout, ctl, pc, item>>
        /\ \/ task[t] = "posted" /\ task' = [task EXCEPT ![t] = "delivered"]
           \/ task[t] = "new" /\ task' = [task EXCEPT ![t] = "accepted"]
    BY <1>8 DEF GetOutput, AddTask
  <2>2. \A s \in Tasks : task'[s] \in {"computed", "posted", "delivered"}
                           <=> task[s] \in {"computed", "posted", "delivered"}
    BY <1>0, <2>1
  <2>3. \A s \in Tasks : Logged(s)' <=> Logged(s)
    BY <2>1, <2>2 DEF Logged
  <2> QED BY <1>1, <1>2, <2>1, <2>3 DEF Stopped
<1>9. ASSUME NEW w \in Threads, PauseLock(w) \/ PauseTest(w) \/ PauseSleep(w) \/ PauseWake(w)
                                \/ Grow(w)
      PROVE  Log'
  <2>1. /\ UNCHANGED <<m_wq, logger, line, m_fout, task>>
        /\ ctl' = ctl
        /\ item' = item \/ item' = [item EXCEPT ![w] = Nothing]
        /\ pc[w] \in {"lock", "test", "falling", "woken", "none"}
        /\ \E s \in {"test", "pop", "falling", "asleep"} : pc' = [pc EXCEPT ![w] = s]
    BY <1>9 DEF PauseLock, PauseTest, PauseSleep, PauseWake, Grow, Goto
  <2>2. \A v \in Threads : /\ pc'[v] = "notify" <=> pc[v] = "notify"
                           /\ pc[v] = "notify" => item'[v] = item[v]
    BY <1>0, <2>1
  <2> QED BY <1>1, <1>2, <1>3, <2>1, <2>2 DEF Stopped
<1>10. CASE ResumeNotify
  <2>1. /\ UNCHANGED <<m_wq, logger, line, m_fout, task, item>> /\ ctl = "notify" /\ ctl' = "idle"
        /\ \A v \in Threads : pc'[v] = "notify" <=> pc[v] = "notify"
    BY <1>0, <1>10 DEF ResumeNotify
  <2> QED BY <1>1, <1>2, <1>3, <2>1 DEF Stopped
<1>11. CASE \/ Pause \/ (\E n \in Counts : SetNumThreads(n)) \/ Destroy
            \/ PauseSpin \/ PausePush \/ PauseReturn \/ Resume \/ Resized \/ Shrink
            \/ DestroyPush \/ DestroyJoin \/ LoggerNotify \/ LoggerClose
  <2>1. UNCHANGED <<m_wq, logger, line, m_fout, task, item, pc>>
    BY <1>11
     DEF Pause, SetNumThreads, Destroy, PauseSpin, PausePush, PauseReturn, Resume, Resized,
         Shrink, DestroyPush, DestroyJoin, LoggerNotify, LoggerClose, LQ!NotifyOne
  <2>2. (Stopped' <=> Stopped) /\ (ctl' = "end" => logger = "gone")
    BY <1>11
     DEF Pause, SetNumThreads, Destroy, PauseSpin, PausePush, PauseReturn, Resume, Resized,
         Shrink, DestroyPush, DestroyJoin, LoggerNotify, LoggerClose, Stopped
  <2> QED BY <1>1, <1>2, <1>3, <2>1, <2>2
<1>12. CASE LoggerStop
  <2>1. /\ m_wq' = Append(m_wq, Stop) /\ ctl = "stop" /\ ctl' = "stopNotify"
        /\ UNCHANGED <<item, task, pc, logger, line, m_fout>>
    BY <1>12 DEF LoggerStop, LQ!Push
  <2>2. ~Stopped /\ Stopped' /\ ctl' # "end"
    BY <2>1 DEF Stopped
  <2>3. /\ DOMAIN Lines = 1 .. Len(Lines) /\ Len(Lines) \in Nat
        /\ Len(Lines') = Len(Lines) + 1 /\ DOMAIN Lines' = 1 .. (Len(Lines) + 1)
        /\ \A i \in 1 .. (Len(Lines) + 1) :
             Lines'[i] = IF i = Len(Lines) + 1 THEN Stop ELSE Lines[i]
    BY <2>1, LinesPush DEF Record
  <2>4. \A t \in Tasks : Logged(t)' <=> Logged(t)
    BY <2>1 DEF Logged
  <2>5. \A i \in DOMAIN Lines : Lines[i] # Stop
    BY <2>2 DEF Log
  <2>6. \A i \in DOMAIN Lines' : (i \in DOMAIN Lines /\ Lines'[i] = Lines[i])
                                 \/ (i = Len(Lines) + 1 /\ Lines'[i] = Stop)
    BY <2>3
  <2>7. \A i \in DOMAIN Lines : i \in DOMAIN Lines' /\ Lines'[i] = Lines[i]
    BY <2>3
  <2>8. Len(Lines') \in DOMAIN Lines' /\ Lines'[Len(Lines')] = Stop
    BY <2>3
  <2>9. \A t \in Tasks : Logged(t)' <=> \E n \in DOMAIN Lines' : Lines'[n] = t
    <3> SUFFICES ASSUME NEW t \in Tasks
                 PROVE  Logged(t)' <=> \E n \in DOMAIN Lines' : Lines'[n] = t
      OBVIOUS
    <3>1. Logged(t) <=> \E n \in DOMAIN Lines : Lines[n] = t
      BY DEF Log
    <3>2. t # Stop
      BY PoolAssumption DEF Stop
    <3> QED BY <2>4, <2>6, <2>7, <3>1, <3>2
  <2>10. \A n, m \in DOMAIN Lines' : Lines'[n] = Lines'[m] => n = m
    BY <2>5, <2>6 DEF Log
  <2>11. \A n \in DOMAIN Lines' : Lines'[n] = Stop => n = Len(Lines')
    BY <2>3, <2>5, <2>6
  <2>12. Lines' # <<>>
    BY <2>8
  <2>13. /\ logger' = "run" => line' \in Tasks \cup {Stop}
         /\ logger' = "gone" => m_fout' # <<>> /\ m_fout'[Len(m_fout')] = Stop
    BY <2>1 DEF Log
  <2> QED BY <2>2, <2>8, <2>9, <2>10, <2>11, <2>12, <2>13 DEF Log
<1>13. CASE LogPop
  <2>1. UNCHANGED <<task, item, pc, ctl>> /\ logger = "pop"
    BY <1>13 DEF LogPop
  <2>2. Lines' = Lines /\ (logger' = "run" => line' \in Record) /\ logger' # "gone"
    BY <1>13, LinesTaken
  <2>3. ctl # "end"
    BY <2>1 DEF Log
  <2> QED BY <1>1, <1>3, <2>1, <2>2, <2>3 DEF Stopped, Record
<1>14. CASE LogRun
  <2>1. UNCHANGED <<task, item, pc, ctl>> /\ logger = "run"
    BY <1>14 DEF LogRun
  <2>2. /\ Lines' = Lines /\ logger' # "run"
        /\ logger' = "gone" => m_fout' # <<>> /\ m_fout'[Len(m_fout')] = Stop
    BY <1>14, LinesWritten
  <2>3. ctl # "end"
    BY <2>1 DEF Log
  <2> QED BY <1>1, <1>3, <2>1, <2>2, <2>3 DEF Stopped
<1>15. CASE UNCHANGED vars
  <2>1. UNCHANGED <<m_wq, logger, line, m_fout, task, item, pc, ctl>>
    BY <1>15 DEF vars
  <2> QED BY <1>1, <1>2, <1>3, <2>1 DEF Stopped
<1> QED BY <1>4, <1>5, <1>6, <1>7, <1>8, <1>9, <1>10, <1>11, <1>12, <1>13, <1>14, <1>15
        DEF Next, Returns, Worker

-----------------------------------------------------------------------------
LEMMA NextInv == Inv /\ [Next]_vars => Inv'
<1> SUFFICES ASSUME Inv, [Next]_vars PROVE Inv'
  OBVIOUS
<1>1. /\ TypeOK /\ InQueue /\ AtWorker /\ Gate /\ Counters /\ LiveCount
      /\ Pausing /\ Straggler /\ Log
  BY DEF Inv
<1>2. Gate'
  BY <1>1, GateNext
<1>3. InQueue' /\ AtWorker'
  BY <1>1, OnceNext
<1>4. Counters'
  BY <1>1, CountersNext
<1>5. LiveCount'
  BY <1>1, LiveNext
<1>6. Pausing'
  BY <1>1, PausingNext
<1>7. Straggler'
  BY <1>1, StragglerNext
<1>8. Log'
  BY <1>1, LogNext
<1>9. TypeOK'
  BY <1>1, <1>2, <1>4, TypeNext
<1> QED BY <1>2, <1>3, <1>4, <1>5, <1>6, <1>7, <1>8, <1>9 DEF Inv

(* The queue, the workers and the log keep their types, and the counter of *)
(* paused workers stays between 0 and their number (ThreadPool, Logger),   *)
(* for any number of threads, tasks and calls.                             *)
THEOREM PoolTypeTheorem == Spec => []TypeOK
<1>1. Inv => TypeOK
  BY DEF Inv
<1> QED BY <1>1, InitInv, NextInv, PTL DEF Spec

(* Resume, which sets m_resume without the mutex, leaves at most one       *)
(* worker behind, for any number of threads and calls (PauseTask, Resume). *)
THEOREM StragglerTheorem == Spec => []OneStraggler
<1>1. Inv => OneStraggler
  <2> SUFFICES ASSUME Inv, ctl = "idle"
               PROVE  Cardinality({w \in Threads : pc[w] \in {"falling", "asleep"}}) <= 1
    BY DEF OneStraggler
  <2> DEFINE F == {w \in Threads : pc[w] \in {"falling", "asleep"}}
  <2>1. \A w, v \in F : w = v
    BY DEF Inv, Straggler
  <2>2. CASE F = {}
    BY <2>2, FS_EmptySet
  <2>3. CASE F # {}
    <3>1. PICK w \in F : TRUE
      BY <2>3
    <3>2. F = {w}
      BY <2>1, <3>1
    <3>3. Cardinality(F) = 1
      BY <3>2, FS_Singleton
    <3> QED BY <3>3
  <2> QED BY <2>2, <2>3
<1> QED BY <1>1, InitInv, NextInv, PTL DEF Spec

(* The closed log file ends with the stop record and has the line of every *)
(* task that has run, once, for any number of threads and tasks (~Logger,  *)
(* ~ThreadPool, LogThreadFunc).                                            *)
THEOREM LogTheorem == Spec => []LogComplete
<1>1. Inv => LogComplete
  <2> SUFFICES ASSUME Inv, ctl = "end"
               PROVE  /\ m_fout[Len(m_fout)] = Stop
                      /\ \A t \in Tasks :
                           Cardinality({n \in DOMAIN m_fout : m_fout[n] = t})
                             = IF task[t] \in {"posted", "delivered"} THEN 1 ELSE 0
    BY DEF LogComplete
  <2>1. /\ logger = "gone" /\ m_fout # <<>> /\ m_fout[Len(m_fout)] = Stop /\ Live = {}
        /\ TypeOK /\ Log /\ AtWorker
    BY DEF Inv, Log, Pausing
  <2>2. m_fout \in Seq(Record) /\ DOMAIN m_fout = 1 .. Len(m_fout) /\ Len(m_fout) \in Nat \ {0}
    BY <2>1, EmptySeq, LenProperties DEF TypeOK, Record
  <2>3. /\ Len(Taken) = 0 /\ Len(m_wq) \in Nat
        /\ Len(Lines) = Len(m_fout) + Len(Taken) + Len(m_wq)
        /\ DOMAIN Lines = 1 .. (Len(m_fout) + Len(Taken) + Len(m_wq))
    BY <2>1, LinesElements
  <2>4. \A i \in 1 .. Len(m_fout) : i \in DOMAIN Lines /\ Lines[i] = m_fout[i]
    <3> SUFFICES ASSUME NEW i \in 1 .. Len(m_fout)
                 PROVE  i \in DOMAIN Lines /\ Lines[i] = m_fout[i]
      OBVIOUS
    <3>1. i \in DOMAIN Lines /\ i <= Len(m_fout)
      BY <2>2, <2>3
    <3> QED BY <2>1, <3>1, LinesElements
  <2>5. Len(m_fout) = Len(Lines)
    <3>1. Len(m_fout) \in DOMAIN Lines /\ Lines[Len(m_fout)] = Stop
      BY <2>1, <2>2, <2>4
    <3> QED BY <2>1, <3>1 DEF Log
  <2>6. DOMAIN Lines = DOMAIN m_fout
    BY <2>2, <2>3, <2>5
  <2>7. ASSUME NEW t \in Tasks
        PROVE  Cardinality({n \in DOMAIN m_fout : m_fout[n] = t})
                 = IF task[t] \in {"posted", "delivered"} THEN 1 ELSE 0
    <3> DEFINE N == {n \in DOMAIN m_fout : m_fout[n] = t}
    <3>1. \A w \in Threads : pc[w] \in {"none", "gone"}
      BY <2>1 DEF Live
    <3>2. Logged(t) <=> task[t] \in {"posted", "delivered"}
      BY <2>1, <3>1 DEF Logged, AtWorker, Working
    <3>3. Logged(t) <=> \E n \in DOMAIN m_fout : m_fout[n] = t
      BY <2>1, <2>2, <2>4, <2>6 DEF Log
    <3>4. \A n, m \in DOMAIN m_fout : m_fout[n] = m_fout[m] => n = m
      BY <2>1, <2>2, <2>4, <2>6 DEF Log
    <3>5. CASE Logged(t)
      <4>1. PICK n \in N : TRUE
        BY <3>3, <3>5
      <4>2. N = {n}
        BY <3>4, <4>1
      <4>3. Cardinality(N) = 1
        BY <4>2, FS_Singleton
      <4> QED BY <3>2, <3>5, <4>3
    <3>6. CASE ~Logged(t)
      <4>1. N = {}
        BY <3>3, <3>6
      <4>2. Cardinality(N) = 0
        BY <4>1, FS_EmptySet
      <4> QED BY <3>2, <3>6, <4>2
    <3> QED BY <3>5, <3>6
  <2> QED BY <2>1, <2>7
<1> QED BY <1>1, InitInv, NextInv, PTL DEF Spec

-----------------------------------------------------------------------------
(* The refinement of TaskService                                           *)

Abs(s) == CASE s \in {"running", "computed"} -> "running"
            [] s = "posted"                 -> "finished"
            [] OTHER                        -> s

LEMMA AbsValues ==
  /\ Abs("new") = "new" /\ Abs("accepted") = "accepted" /\ Abs("delivered") = "delivered"
  /\ Abs("running") = "running" /\ Abs("computed") = "running" /\ Abs("posted") = "finished"
  /\ \A s \in {"new", "accepted", "running", "computed", "posted", "delivered"} :
       Abs(s) = "running" => s \in {"running", "computed"}
BY DEF Abs

LEMMA PhaseValues ==
  /\ Phase = "paused" <=> ctl = "paused"
  /\ Phase = "closed" <=> ctl \in {"stop", "stopNotify", "stopJoin", "end"}
  /\ Phase = "open" <=> ctl \notin {"paused", "stop", "stopNotify", "stopJoin", "end"}
BY DEF Phase

LEMMA RefineInit == Init => Service!Init
<1> SUFFICES ASSUME Init PROVE Service!Init
  OBVIOUS
<1>1. Phase = "open"
  BY PhaseValues DEF Init
<1>2. State = [t \in Tasks |-> "new"]
  BY DEF Init, State
<1> QED BY <1>1, <1>2 DEF Service!Init

(* Every step is a step of TaskService or changes nothing of it.           *)
LEMMA RefineNext == Inv /\ [Next]_vars => [Service!Next]_<<Phase, State>>
<1> SUFFICES ASSUME Inv, [Next]_vars
             PROVE  Service!Next \/ (Phase' = Phase /\ State' = State)
  OBVIOUS
<1> USE DEF poolVars, workVars, ctlVars, logVars, Call
<1>0. /\ pc \in [Threads -> PCs] /\ item \in [Threads -> Items]
      /\ task \in [Tasks -> {"new", "accepted", "running", "computed", "posted", "delivered"}]
      /\ TypeOK /\ InQueue /\ AtWorker /\ Pausing
  BY DEF Inv, TypeOK, PCs
<1>00. \A w \in Threads : pc[w] \in Working => item[w].task \in Tasks
  BY <1>0, ItemFields DEF AtWorker
<1>1. State = [t \in Tasks |-> Abs(task[t])] /\ State' = [t \in Tasks |-> Abs(task'[t])]
  BY DEF State, Abs
<1>2. /\ Phase' = "paused" <=> ctl' = "paused"
      /\ Phase' = "closed" <=> ctl' \in {"stop", "stopNotify", "stopJoin", "end"}
      /\ Phase' = "open" <=> ctl' \notin {"paused", "stop", "stopNotify", "stopJoin", "end"}
  BY DEF Phase
<1>3. \A t \in Tasks : State[t] = Abs(task[t])
  BY <1>1
<1>4. task' = task => State' = State
  BY <1>1
<1>5. ctl' = ctl => Phase' = Phase
  BY DEF Phase
<1>6. ASSUME NEW t \in Tasks, NEW s, task' = [task EXCEPT ![t] = s]
      PROVE  State' = [State EXCEPT ![t] = Abs(s)]
  <2>1. \A u \in Tasks : Abs(task'[u]) = IF u = t THEN Abs(s) ELSE State[u]
    BY <1>0, <1>3, <1>6
  <2> QED BY <1>1, <2>1
<1>7. \A w \in Threads : pc[w] \in Working \cup {"pop"} => Phase = "open"
  <2> SUFFICES ASSUME NEW w \in Threads, pc[w] \in Working \cup {"pop"}
               PROVE  Phase = "open"
    OBVIOUS
  <2>1. w \in Live /\ w \notin Ready
    BY DEF Live, Ready, Working
  <2>2. ctl \notin {"paused", "stop", "stopNotify", "stopJoin", "end"}
    BY <1>0, <2>1 DEF Pausing
  <2> QED BY <2>2, PhaseValues
<1>8. (\A w \in Threads : pc[w] \notin Working) => \A t \in Tasks : State[t] # "running"
  BY <1>0, <1>3, AbsValues DEF AtWorker
<1> HIDE DEF Abs
<1>9. ASSUME NEW w \in Threads, ThreadFunc(w)
      PROVE  Service!Next \/ (Phase' = Phase /\ State' = State)
  <2>1. PICK n \in DOMAIN m_tasks_pq :
          /\ m_tasks_pq[n] \in Items
          /\ m_tasks_pq[n].kind = "task" =>
                task' = [task EXCEPT ![m_tasks_pq[n].task] = "running"]
          /\ m_tasks_pq[n].kind # "task" => task' = task
    BY <1>0, <1>9, PopStep
  <2>2. ctl' = ctl /\ pc[w] = "pop"
    BY <1>9 DEF ThreadFunc
  <2>3. CASE m_tasks_pq[n].kind = "task"
    <3> DEFINE t == m_tasks_pq[n].task
    <3>1. t \in Tasks /\ task[t] = "accepted" /\ task' = [task EXCEPT ![t] = "running"]
      BY <1>0, <2>1, <2>3, ItemFields DEF InQueue, Places
    <3> HIDE DEF t
    <3>2. State[t] = "accepted" /\ State' = [State EXCEPT ![t] = "running"]
      <4>1. State[t] = Abs("accepted")
        BY <1>3, <3>1
      <4>2. State' = [State EXCEPT ![t] = Abs("running")]
        BY <1>6, <3>1
      <4> QED BY <4>1, <4>2, AbsValues
    <3>3. Phase = "open" /\ Phase' = Phase
      BY <1>5, <1>7, <2>2
    <3>4. Service!Begin(t)
      BY <3>2, <3>3 DEF Service!Begin, Service!Move
    <3> QED BY <3>1, <3>4 DEF Service!Next
  <2>4. CASE m_tasks_pq[n].kind # "task"
    BY <1>4, <1>5, <2>1, <2>2, <2>4
  <2> QED BY <2>3, <2>4
<1>10. ASSUME NEW w \in Threads, RunNotify(w)
       PROVE  Phase' = Phase /\ State' = State
  <2>1. ctl' = ctl /\ pc[w] = "notify" /\ task' = [task EXCEPT ![item[w].task] = "computed"]
    BY <1>10 DEF RunNotify, Goto
  <2>2. item[w].task \in Tasks /\ task[item[w].task] = "running"
    BY <1>0, <1>00, <2>1 DEF AtWorker, Working
  <2>3. State' = [State EXCEPT ![item[w].task] = "running"] /\ State[item[w].task] = "running"
    <3>1. State[item[w].task] = Abs("running")
      BY <1>3, <2>2
    <3>2. State' = [State EXCEPT ![item[w].task] = Abs("computed")]
      BY <1>6, <2>1, <2>2
    <3> QED BY <3>1, <3>2, AbsValues
  <2>4. State' = State
    BY <1>1, <2>2, <2>3
  <2> QED BY <1>5, <2>1, <2>4
<1>11. ASSUME NEW w \in Threads, RunPost(w)
       PROVE  Service!Next
  <2> DEFINE t == item[w].task
  <2>1. ctl' = ctl /\ pc[w] = "post" /\ task' = [task EXCEPT ![t] = "posted"]
    BY <1>11 DEF RunPost, Goto
  <2>2. t \in Tasks /\ task[t] = "computed"
    BY <1>0, <1>00, <2>1 DEF AtWorker, Working
  <2> HIDE DEF t
  <2>3. State[t] = "running" /\ State' = [State EXCEPT ![t] = "finished"]
    <3>1. State[t] = Abs("computed")
      BY <1>3, <2>2
    <3>2. State' = [State EXCEPT ![t] = Abs("posted")]
      BY <1>6, <2>1, <2>2
    <3> QED BY <3>1, <3>2, AbsValues
  <2>4. Phase = "open" /\ Phase' = Phase
    BY <1>5, <1>7, <2>1 DEF Working
  <2>5. Service!Finish(t)
    BY <2>3, <2>4 DEF Service!Finish, Service!Move
  <2> QED BY <2>2, <2>5 DEF Service!Next
<1>12. ASSUME NEW t \in Tasks, NEW p \in Priorities, AddTask(t, p)
       PROVE  Service!Next
  <2>1. /\ ctl' = ctl /\ ctl \notin Destroying /\ task[t] = "new"
        /\ task' = [task EXCEPT ![t] = "accepted"]
    BY <1>12 DEF AddTask
  <2>2. State[t] = "new" /\ State' = [State EXCEPT ![t] = "accepted"]
    BY <1>3, <1>6, <2>1, AbsValues
  <2>3. Phase # "closed" /\ Phase' = Phase
    BY <1>5, <2>1, PhaseValues DEF Destroying
  <2>4. Service!Accept(t)
    BY <2>2, <2>3 DEF Service!Accept, Service!Move
  <2> QED BY <2>4 DEF Service!Next
<1>13. ASSUME NEW t \in Tasks, GetOutput(t)
       PROVE  Service!Next
  <2>1. ctl' = ctl /\ task[t] = "posted" /\ task' = [task EXCEPT ![t] = "delivered"]
    BY <1>13 DEF GetOutput
  <2>2. State[t] = "finished" /\ State' = [State EXCEPT ![t] = "delivered"]
    <3>1. State[t] = Abs("posted")
      BY <1>3, <2>1
    <3>2. State' = [State EXCEPT ![t] = Abs("delivered")]
      BY <1>6, <2>1
    <3> QED BY <3>1, <3>2, AbsValues
  <2>3. Service!Deliver(t)
    BY <1>5, <2>1, <2>2 DEF Service!Deliver, Service!Move
  <2> QED BY <2>3 DEF Service!Next
<1>14. CASE PauseReturn
  <2>1. ctl = "wait" /\ ctl' = "paused" /\ task' = task /\ pc' = pc
    BY <1>14 DEF PauseReturn
  <2>2. Live' = Ready'
    BY <2>1, NextInv DEF Inv, Pausing
  <2>3. \A w \in Threads : pc[w] \notin Working
    BY <1>0, <2>1, <2>2 DEF Live, Ready, Working
  <2>4. Phase = "open" /\ Phase' = "paused" /\ State' = State
    BY <1>2, <1>4, <2>1, PhaseValues
  <2>5. Service!Pause
    BY <1>8, <2>3, <2>4 DEF Service!Pause, Service!Quiet
  <2> QED BY <2>5 DEF Service!Next
<1>15. CASE Resume
  <2>1. ctl = "paused" /\ ctl' = "notify" /\ task' = task
    BY <1>15 DEF Resume
  <2>2. Phase = "paused" /\ Phase' = "open" /\ State' = State
    BY <1>2, <1>4, <2>1, PhaseValues
  <2> QED BY <2>2 DEF Service!Next, Service!Resume
<1>16. CASE DestroyJoin
  <2>1. ctl = "join" /\ ctl' = "stop" /\ task' = task
        /\ \A w \in Threads : pc[w] \in {"none", "gone"}
    BY <1>16 DEF DestroyJoin
  <2>2. Phase = "open" /\ Phase' = "closed" /\ State' = State
    BY <1>2, <1>4, <2>1, PhaseValues
  <2>3. \A t \in Tasks : State[t] # "running"
    BY <1>8, <2>1 DEF Working
  <2> QED BY <2>2, <2>3 DEF Service!Next, Service!Close, Service!Quiet
<1>17. ASSUME task' = task, ctl' = ctl \/ (/\ Phase = "open"
                                           /\ ctl' \notin {"paused", "stop", "stopNotify",
                                                           "stopJoin", "end"})
                                       \/ (/\ ctl \in {"stop", "stopNotify", "stopJoin"}
                                           /\ ctl' \in {"stopNotify", "stopJoin", "end"})
       PROVE  Phase' = Phase /\ State' = State
  BY <1>2, <1>4, <1>5, <1>17, PhaseValues
<1>18. CASE \E w \in Threads : Run(w) \/ PauseLock(w) \/ PauseTest(w) \/ PauseSleep(w)
                               \/ PauseWake(w) \/ Grow(w)
  BY <1>17, <1>18 DEF Run, PauseLock, PauseTest, PauseSleep, PauseWake, Grow
<1>19. CASE \/ Pause \/ (\E n \in Counts : SetNumThreads(n)) \/ Destroy
            \/ PauseSpin \/ PausePush \/ ResumeNotify \/ Resized \/ Shrink
            \/ DestroyPush
  <2>1. /\ task' = task /\ ctl \notin {"paused", "stop", "stopNotify", "stopJoin", "end"}
        /\ ctl' \notin {"paused", "stop", "stopNotify", "stopJoin", "end"}
    BY <1>19
     DEF Pause, SetNumThreads, Destroy, PauseSpin, PausePush, ResumeNotify, Resized,
         Shrink, DestroyPush
  <2> QED BY <1>17, <2>1, PhaseValues
<1>20. CASE LoggerStop \/ LoggerNotify \/ LoggerClose \/ LogPop \/ LogRun \/ UNCHANGED vars
  BY <1>17, <1>20 DEF LoggerStop, LoggerNotify, LoggerClose, LogPop, LogRun, vars
<1> QED BY <1>9, <1>10, <1>11, <1>12, <1>13, <1>14, <1>15, <1>16, <1>18, <1>19, <1>20
        DEF Next, Returns, Worker

(* After Pause has returned nothing runs until Resume, whatever pills of   *)
(* SetNumThreads were in the queue; a task runs at most once, GetOutput    *)
(* returns after it: the pool implements TaskService for any number of     *)
(* threads, tasks, priorities and calls (Pause, PauseTask, ThreadFunc).    *)
THEOREM TaskServiceTheorem == Spec => ImplementsTaskService
BY RefineInit, RefineNext, InitInv, NextInv, PTL
   DEF Spec, ImplementsTaskService, Service!Spec
=============================================================================
