-------------------------- MODULE FrameworkProofs ---------------------------
(***************************************************************************)
(* Proofs about Framework and Singleton: one object per class, types and   *)
(* how often a plugin is opened, and that creators do not outlive the code *)
(* they point into, for any set of plugins.                                *)
(***************************************************************************)
EXTENDS Framework, SequenceTheorems, TLAPS

-----------------------------------------------------------------------------
(* The inductive invariant of Singleton                                    *)

Registered(T) == (\E n \in DOMAIN atexit : atexit[n] = T) \/ T \in destroyed

(* How far the object of T has come.                                       *)
Fresh(T)   == created[T] = 0 /\ m_instance[T] = 0 /\ ~m_supply_flag[T] /\ ~Registered(T)
Made(T)    == created[T] = 1 /\ m_instance[T] = 0 /\ ~m_supply_flag[T] /\ ~Registered(T)
Stored(T)  == created[T] = 1 /\ m_instance[T] = 1 /\ ~m_supply_flag[T] /\ ~Registered(T)
Flagged(T) == created[T] = 1 /\ m_instance[T] = 1 /\ m_supply_flag[T] /\ ~Registered(T)
Ready(T)   == created[T] = 1 /\ m_instance[T] = 1 /\ m_supply_flag[T] /\ Registered(T)

Holding == {"build", "store", "flag", "atexit"}

(* Who holds the mutex of T is between the second test and the unlock, and *)
(* how far the object has come is told by who holds it where.              *)
ClassInv(T) ==
  /\ \A t \in Threads : step[t][T] \in Holding <=> m_mutex[T] = t
  /\ m_mutex[T] = "free" => Fresh(T) \/ Ready(T)
  /\ \A t \in Threads :
       /\ At(t, T, "build")  => Fresh(T)
       /\ At(t, T, "store")  => Made(T)
       /\ At(t, T, "flag")   => Stored(T)
       /\ At(t, T, "atexit") => Flagged(T)
       /\ At(t, T, "has")    => m_instance[T] = 1 /\ got[t][T] = 1

SingletonInv == SingletonTypeOK /\ \A T \in Classes : ClassInv(T)

-----------------------------------------------------------------------------
(* The inductive invariant of Framework                                    *)

Masks == {"IN_CREATE", "IN_MODIFY", "IN_MOVED_TO", "IN_ATTRIB"}
Events == [mask : Masks, name : Plugins \cup {"exit.txt"}]

Plain ==
  /\ file \in [Plugins -> {"absent", "partial", "whole"}]
  /\ stage \in -3 .. 5
  /\ toScan \subseteq Plugins /\ scanned \subseteq Plugins /\ due \subseteq Plugins
  /\ registered \in BOOLEAN /\ foreign \in BOOLEAN
  /\ dm_mutex \in {"free", "monitor"}
  /\ monitor \in {"none", "read", "lock", "notify", "gone"}
  /\ work \in [Threads -> {"none", "dlopen", "init", "add", "added"}]
  /\ opens \in [Plugins -> Nat] /\ nulls \in BOOLEAN
  /\ m_map \subseteq Plugins \cup {"main"}

Libs == /\ events \in Seq(Events)
        /\ lib \in [Threads -> Plugins \cup {"main", "none"}]
        /\ copy \in [Threads -> SUBSET (Plugins \cup {"main"})]
        /\ \A t \in Threads : /\ work[t] \in {"dlopen", "init"} => lib[t] \in Plugins
                              /\ work[t] # "none" => lib[t] \in Plugins \cup {"main"}
        /\ monitor = "lock" => lib["monitor"] \in Plugins

(* Where each thread may be in GetInstance and in Load.                    *)
Where ==
  /\ \A T \in Classes \ {"Factory"} : step["monitor"][T] = "out"
  /\ step["main"]["DirMonitor"] # "out" => stage = 1
  /\ step["main"]["DLLLoader"] # "out" => stage = 2
  /\ \A t \in Threads : /\ work[t] \in {"dlopen", "init"} => step[t]["Factory"] = "out"
                        /\ work[t] = "added" => step[t]["Factory"] = "has"
  /\ work["monitor"] # "none" => monitor = "notify"
  /\ work["monitor"] = "none" => step["monitor"]["Factory"] = "out"
  /\ work["main"] = "none" /\ stage # 4 => step["main"]["Factory"] = "out"
  /\ work["main"] # "none" => \/ stage = 2 /\ step["main"]["DLLLoader"] = "build"
                              \/ stage = 5 /\ work["main"] \in {"add", "added"}
  /\ stage \in 1 .. 3 => ~registered /\ work["monitor"] = "none"
  /\ stage \notin 1 .. 4 => m_instance["Factory"] = 1
  /\ destroyed # {} => stage \notin 1 .. 5

(* Who has still to open p: main in its scan, the monitor for the event    *)
(* of its arrival.                                                         *)
Pending(p) == \E n \in DOMAIN events : Loads(events[n]) /\ events[n].name = p
MainOwes(p) == p \in toScan \/ (work["main"] = "dlopen" /\ lib["main"] = p)
AtMonitor(p) == (monitor = "lock" \/ work["monitor"] = "dlopen") /\ lib["monitor"] = p
MonitorOwes(p) == file[p] = "absent" \/ Pending(p) \/ AtMonitor(p)

Bound(p) == (IF MainOwes(p) THEN 0 ELSE 1) + (IF MonitorOwes(p) THEN 0 ELSE 1)

Budget ==
  /\ \A p \in Plugins :
       /\ opens[p] <= Bound(p)
       /\ Pending(p) => file[p] # "absent" /\ ~AtMonitor(p)
       /\ AtMonitor(p) => file[p] # "absent"
       /\ work["main"] = "dlopen" /\ lib["main"] = p => p \notin toScan
  /\ \A m, n \in DOMAIN events :
       Loads(events[m]) /\ Loads(events[n]) /\ events[m].name = events[n].name => m = n

(* With a quiet exit nobody uses a singleton any more.                     *)
Quiet ==
  QuietExit /\ Exiting =>
    /\ monitor \notin {"lock", "notify"}
    /\ \A t \in Threads : work[t] = "none" /\ \A T \in Classes : step[t][T] = "out"
    /\ \A n \in DOMAIN events : ~Loads(events[n])

(* Until the scan loads something, nobody asks for the Factory before      *)
(* DLLLoader is registered with atexit.                                    *)
LoaderFirst ==
  scanned = {} =>
    /\ stage \in 1 .. 3 => /\ m_instance["Factory"] = 0 /\ work["main"] = "none"
                           /\ \A t \in Threads : step[t]["Factory"] = "out"
    /\ \A m, n \in DOMAIN atexit : atexit[m] = "DLLLoader" /\ atexit[n] = "Factory" => m < n

Unloading ==
  QuietExit => /\ "Factory" \in destroyed => m_map = {}
               /\ "DLLLoader" \in destroyed /\ scanned = {} => "Factory" \in destroyed

Inv == /\ SingletonInv /\ Plain /\ Libs /\ Where /\ Budget /\ Quiet /\ LoaderFirst /\ Unloading

-----------------------------------------------------------------------------
(* Steps of Singleton                                                      *)

LEMMA FreeIsNoThread == "free" \notin Threads
BY FrameworkAssumption

LEMMA GotoStep ==
  ASSUME NEW t \in Threads, NEW T \in Classes, NEW s \in Steps,
         step \in [Threads -> [Classes -> Steps]], step' = [step EXCEPT ![t][T] = s]
  PROVE  /\ step' \in [Threads -> [Classes -> Steps]] /\ step'[t][T] = s
         /\ \A u \in Threads, C \in Classes : u # t \/ C # T => step'[u][C] = step[u][C]
OBVIOUS

LEMMA ReturnStep ==
  ASSUME NEW t \in Threads, NEW T \in Classes, SingletonTypeOK, Return(t, T)
  PROVE  /\ step' \in [Threads -> [Classes -> Steps]] /\ step'[t][T] = "has"
         /\ \A u \in Threads, C \in Classes : u # t \/ C # T => step'[u][C] = step[u][C]
         /\ got' \in [Threads -> [Classes -> Nat]] /\ got'[t][T] = m_instance[T]
         /\ \A u \in Threads, C \in Classes : u # t \/ C # T => got'[u][C] = got[u][C]
<1>1. "has" \in Steps /\ step' = [step EXCEPT ![t][T] = "has"]
      /\ step \in [Threads -> [Classes -> Steps]]
  BY DEF Steps, Return, SingletonTypeOK
<1>2. /\ got' = [got EXCEPT ![t][T] = m_instance[T]] /\ got \in [Threads -> [Classes -> Nat]]
      /\ m_instance[T] \in Nat
  BY DEF Return, SingletonTypeOK
<1>3. /\ got' \in [Threads -> [Classes -> Nat]] /\ got'[t][T] = m_instance[T]
      /\ \A u \in Threads, C \in Classes : u # t \/ C # T => got'[u][C] = got[u][C]
  BY <1>2
<1>4. /\ step' \in [Threads -> [Classes -> Steps]] /\ step'[t][T] = "has"
      /\ \A u \in Threads, C \in Classes : u # t \/ C # T => step'[u][C] = step[u][C]
  BY <1>1, GotoStep
<1> QED BY <1>3, <1>4

(* A step of thread t in GetInstance of T.                                 *)
StepOf(t, T) ==
  /\ m_instance' \in [Classes -> Nat] /\ created' \in [Classes -> Nat]
  /\ m_supply_flag' \in [Classes -> BOOLEAN] /\ m_mutex' \in [Classes -> Threads \cup {"free"}]
  /\ step' \in [Threads -> [Classes -> Steps]] /\ got' \in [Threads -> [Classes -> Nat]]
  /\ \A C \in Classes : C # T => /\ m_instance'[C] = m_instance[C] /\ created'[C] = created[C]
                                 /\ m_supply_flag'[C] = m_supply_flag[C]
                                 /\ m_mutex'[C] = m_mutex[C]
  /\ \A u \in Threads, C \in Classes :
       u # t \/ C # T => step'[u][C] = step[u][C] /\ got'[u][C] = got[u][C]

LEMMA ObjectSame ==
  ASSUME NEW T \in Classes, created'[T] = created[T], m_instance'[T] = m_instance[T],
         m_supply_flag'[T] = m_supply_flag[T], Registered(T)' <=> Registered(T)
  PROVE  /\ Fresh(T)' <=> Fresh(T)
         /\ Made(T)' <=> Made(T)
         /\ Stored(T)' <=> Stored(T)
         /\ Flagged(T)' <=> Flagged(T)
         /\ Ready(T)' <=> Ready(T)
BY DEF Fresh, Made, Stored, Flagged, Ready

LEMMA OtherClass ==
  ASSUME NEW T \in Classes, NEW t \in Threads, NEW C \in Classes, C # T, ClassInv(C), StepOf(t, T),
         Registered(C)' <=> Registered(C)
  PROVE  ClassInv(C)'
<1>1. /\ Fresh(C)' <=> Fresh(C)
      /\ Made(C)' <=> Made(C)
      /\ Stored(C)' <=> Stored(C)
      /\ Flagged(C)' <=> Flagged(C)
      /\ Ready(C)' <=> Ready(C)
  BY ObjectSame DEF StepOf
<1>2. /\ m_instance'[C] = m_instance[C] /\ m_mutex'[C] = m_mutex[C]
      /\ \A u \in Threads : step'[u][C] = step[u][C] /\ got'[u][C] = got[u][C]
  BY DEF StepOf
<1> QED BY <1>1, <1>2 DEF ClassInv, At

LEMMA LeaveInv ==
  ASSUME SingletonInv, NEW t \in Threads, NEW T \in Classes,
         GetInstance(t, T) \/ Leave(t, T) \/ Load(t, T)
  PROVE  SingletonInv' /\ StepOf(t, T)
<1> USE FreeIsNoThread
<1>1. /\ UNCHANGED <<m_instance, m_supply_flag, m_mutex, created, atexit, destroyed>>
      /\ SingletonTypeOK /\ \A C \in Classes : ClassInv(C)
  BY DEF GetInstance, Leave, Load, SingletonInv
<1>2. /\ \/ Return(t, T) /\ (m_supply_flag[T] \/ m_instance[T] # 0)
         \/ \E s \in {"out", "load", "lock"} : Goto(t, T, s)
      /\ step[t][T] \notin Holding
  BY DEF GetInstance, Leave, Load, At, Holding
<1>3. \A C : Registered(C)' <=> Registered(C)
  BY <1>1 DEF Registered
<1>4. /\ step' \in [Threads -> [Classes -> Steps]] /\ got' \in [Threads -> [Classes -> Nat]]
      /\ \A u \in Threads, C \in Classes :
           u # t \/ C # T => step'[u][C] = step[u][C] /\ got'[u][C] = got[u][C]
      /\ \/ step'[t][T] = "has" /\ got'[t][T] = m_instance[T]
                                /\ (m_supply_flag[T] \/ m_instance[T] # 0)
         \/ step'[t][T] \in {"out", "load", "lock"}
  <2>1. CASE Return(t, T) /\ (m_supply_flag[T] \/ m_instance[T] # 0)
    BY <1>1, <2>1, ReturnStep
  <2>2. ASSUME NEW s \in {"out", "load", "lock"}, Goto(t, T, s)
        PROVE  /\ step' \in [Threads -> [Classes -> Steps]] /\ got' = got
               /\ \A u \in Threads, C \in Classes : u # t \/ C # T => step'[u][C] = step[u][C]
               /\ step'[t][T] = s
    BY <1>1, <2>2, GotoStep DEF Goto, SingletonTypeOK, Steps
  <2>3. got \in [Threads -> [Classes -> Nat]]
    BY <1>1 DEF SingletonTypeOK
  <2> QED BY <1>2, <2>1, <2>2, <2>3
<1>5. SingletonTypeOK'
  BY <1>1, <1>4 DEF SingletonTypeOK
<1>6. StepOf(t, T)
  BY <1>1, <1>4 DEF StepOf, SingletonTypeOK
<1>7. m_mutex[T] # t
  BY <1>1, <1>2 DEF ClassInv
<1>8. ClassInv(T)'
  <2>1. step'[t][T] = "has" => m_instance[T] = 1
    <3>1. m_supply_flag[T] \/ m_instance[T] # 0 => m_instance[T] = 1
      <4>1. m_mutex[T] \in Threads \cup {"free"}
        BY <1>1 DEF SingletonTypeOK
      <4>2. CASE m_mutex[T] = "free"
        BY <1>1, <4>2 DEF ClassInv, Fresh, Ready
      <4>3. CASE m_mutex[T] \in Threads
        <5>1. step[m_mutex[T]][T] \in Holding
          BY <1>1, <4>3 DEF ClassInv
        <5> QED BY <1>1, <4>3, <5>1 DEF ClassInv, Holding, At, Fresh, Made, Stored, Flagged
      <4> QED BY <4>1, <4>2, <4>3
    <3> QED BY <1>4, <3>1
  <2>2. \A u \in Threads : step'[u][T] \in Holding <=> m_mutex'[T] = u
    BY <1>1, <1>4, <1>7 DEF ClassInv, Holding
  <2>3. /\ Fresh(T)' <=> Fresh(T)
        /\ Made(T)' <=> Made(T)
        /\ Stored(T)' <=> Stored(T)
        /\ Flagged(T)' <=> Flagged(T)
        /\ Ready(T)' <=> Ready(T)
    BY <1>1, <1>3, ObjectSame
  <2>4. \A u \in Threads :
          /\ At(u, T, "build")'  => Fresh(T)'
          /\ At(u, T, "store")'  => Made(T)'
          /\ At(u, T, "flag")'   => Stored(T)'
          /\ At(u, T, "atexit")' => Flagged(T)'
          /\ At(u, T, "has")'    => m_instance'[T] = 1 /\ got'[u][T] = 1
    <3> SUFFICES ASSUME NEW u \in Threads
                 PROVE  /\ At(u, T, "build")'  => Fresh(T)'
                        /\ At(u, T, "store")'  => Made(T)'
                        /\ At(u, T, "flag")'   => Stored(T)'
                        /\ At(u, T, "atexit")' => Flagged(T)'
                        /\ At(u, T, "has")'    => m_instance'[T] = 1 /\ got'[u][T] = 1
      OBVIOUS
    <3>1. CASE u = t
      BY <1>1, <1>4, <2>1, <3>1 DEF At
    <3>2. CASE u # t
      BY <1>1, <1>4, <2>3, <3>2 DEF ClassInv, At
    <3> QED BY <3>1, <3>2
  <2> QED BY <1>1, <2>2, <2>3, <2>4 DEF ClassInv
<1>9. \A C \in Classes : ClassInv(C)'
  BY <1>1, <1>3, <1>6, <1>8, OtherClass
<1> QED BY <1>5, <1>6, <1>9 DEF SingletonInv

(* A step of the thread that holds the mutex, or takes it.                 *)
LEMMA HolderStep ==
  ASSUME NEW t \in Threads, NEW T \in Classes, ClassInv(T), StepOf(t, T),
         m_mutex[T] \in {"free", t}, m_mutex'[T] = t, step'[t][T] \in Holding,
         m_instance[T] = 1 => m_instance'[T] = 1,
         step'[t][T] = "build" => Fresh(T)',
         step'[t][T] = "store" => Made(T)',
         step'[t][T] = "flag" => Stored(T)',
         step'[t][T] = "atexit" => Flagged(T)'
  PROVE  ClassInv(T)'
<1> USE FreeIsNoThread
<1>1. \A u \in Threads : u # t => /\ step'[u][T] = step[u][T] /\ got'[u][T] = got[u][T]
                                  /\ step[u][T] \notin Holding
  BY DEF StepOf, ClassInv
<1>2. \A u \in Threads : step'[u][T] \in Holding <=> m_mutex'[T] = u
  BY <1>1
<1>3. \A u \in Threads :
        /\ At(u, T, "build")'  => Fresh(T)'
        /\ At(u, T, "store")'  => Made(T)'
        /\ At(u, T, "flag")'   => Stored(T)'
        /\ At(u, T, "atexit")' => Flagged(T)'
        /\ At(u, T, "has")'    => m_instance'[T] = 1 /\ got'[u][T] = 1
  BY <1>1 DEF At, ClassInv, Holding
<1> QED BY <1>2, <1>3 DEF ClassInv

(* What Goto does, as a step of t in T.                                    *)
LEMMA GotoIs ==
  ASSUME NEW t \in Threads, NEW T \in Classes, NEW s \in Steps, SingletonTypeOK, Goto(t, T, s)
  PROVE  /\ step' \in [Threads -> [Classes -> Steps]] /\ step'[t][T] = s
         /\ got' \in [Threads -> [Classes -> Nat]]
         /\ \A u \in Threads, C \in Classes :
              u # t \/ C # T => step'[u][C] = step[u][C] /\ got'[u][C] = got[u][C]
<1>1. /\ step \in [Threads -> [Classes -> Steps]] /\ step' = [step EXCEPT ![t][T] = s]
      /\ got \in [Threads -> [Classes -> Nat]] /\ got' = got
  BY DEF SingletonTypeOK, Goto
<1>2. /\ step' \in [Threads -> [Classes -> Steps]] /\ step'[t][T] = s
      /\ \A u \in Threads, C \in Classes : u # t \/ C # T => step'[u][C] = step[u][C]
  BY <1>1, GotoStep
<1> QED BY <1>1, <1>2

LEMMA ConstructInv ==
  ASSUME SingletonInv, NEW t \in Threads, NEW T \in Classes,
         Built(t, T) \/ Store(t, T) \/ SetFlag(t, T)
  PROVE  SingletonInv' /\ StepOf(t, T)
<1> USE FreeIsNoThread
<1>1. UNCHANGED <<m_mutex, atexit, destroyed>> /\ SingletonTypeOK /\ \A C \in Classes : ClassInv(C)
  BY DEF Built, Store, SetFlag, SingletonInv
<1>2. \A C : Registered(C)' <=> Registered(C)
  BY <1>1 DEF Registered
<1>3. m_mutex[T] = t /\ m_mutex'[T] = t
  BY <1>1 DEF Built, Store, SetFlag, ClassInv, At, Holding
<1>4. /\ Built(t, T)   => Fresh(T) /\ Goto(t, T, "store")
      /\ Store(t, T)   => Made(T) /\ Goto(t, T, "flag")
      /\ SetFlag(t, T) => Stored(T) /\ Goto(t, T, "atexit")
  BY <1>1 DEF Built, Store, SetFlag, ClassInv, At
<1>5. /\ step' \in [Threads -> [Classes -> Steps]] /\ got' \in [Threads -> [Classes -> Nat]]
      /\ step'[t][T] = IF Built(t, T) THEN "store" ELSE IF Store(t, T) THEN "flag" ELSE "atexit"
      /\ \A u \in Threads, C \in Classes :
           u # t \/ C # T => step'[u][C] = step[u][C] /\ got'[u][C] = got[u][C]
  <2>1. {"store", "flag", "atexit"} \subseteq Steps
    BY DEF Steps
  <2>2. CASE Built(t, T)
    BY <1>1, <1>4, <2>1, <2>2, GotoIs
  <2>3. CASE Store(t, T) /\ ~Built(t, T)
    BY <1>1, <1>4, <2>1, <2>3, GotoIs
  <2>4. CASE SetFlag(t, T) /\ ~Built(t, T) /\ ~Store(t, T)
    BY <1>1, <1>4, <2>1, <2>4, GotoIs
  <2> QED BY <2>2, <2>3, <2>4
<1>6. /\ m_instance \in [Classes -> Nat] /\ created \in [Classes -> Nat]
      /\ m_supply_flag \in [Classes -> BOOLEAN] /\ m_mutex \in [Classes -> Threads \cup {"free"}]
  BY <1>1 DEF SingletonTypeOK
<1>7. CASE Built(t, T)
  <2>1. /\ created' = [created EXCEPT ![T] = @ + 1] /\ m_instance' = m_instance
        /\ m_supply_flag' = m_supply_flag
    BY <1>7 DEF Built
  <2>2. StepOf(t, T)
    BY <1>1, <1>5, <1>6, <2>1 DEF StepOf
  <2>3. Made(T)'
    BY <1>2, <1>4, <1>6, <1>7, <2>1 DEF Fresh, Made
  <2>4. ClassInv(T)'
    BY <1>1, <1>3, <1>5, <1>7, <2>1, <2>2, <2>3, HolderStep DEF Holding
  <2>5. \A C \in Classes : ClassInv(C)'
    BY <1>1, <1>2, <2>2, <2>4, OtherClass
  <2> QED BY <1>1, <2>2, <2>5 DEF SingletonInv, SingletonTypeOK, StepOf
<1>8. CASE Store(t, T) /\ ~Built(t, T)
  <2>1. /\ m_instance' = [m_instance EXCEPT ![T] = created[T]] /\ created' = created
        /\ m_supply_flag' = m_supply_flag
    BY <1>8 DEF Store
  <2>2. StepOf(t, T)
    BY <1>1, <1>5, <1>6, <2>1 DEF StepOf
  <2>3. Stored(T)'
    BY <1>2, <1>4, <1>6, <1>8, <2>1 DEF Made, Stored
  <2>4. ClassInv(T)'
    BY <1>1, <1>3, <1>5, <1>8, <2>2, <2>3, HolderStep DEF Holding, Stored
  <2>5. \A C \in Classes : ClassInv(C)'
    BY <1>1, <1>2, <2>2, <2>4, OtherClass
  <2> QED BY <1>1, <2>2, <2>5 DEF SingletonInv, SingletonTypeOK, StepOf
<1>9. CASE SetFlag(t, T) /\ ~Built(t, T) /\ ~Store(t, T)
  <2>1. /\ m_supply_flag' = [m_supply_flag EXCEPT ![T] = TRUE] /\ created' = created
        /\ m_instance' = m_instance
    BY <1>9 DEF SetFlag
  <2>2. StepOf(t, T)
    BY <1>1, <1>5, <1>6, <2>1 DEF StepOf
  <2>3. Flagged(T)'
    BY <1>2, <1>4, <1>6, <1>9, <2>1 DEF Stored, Flagged
  <2>4. ClassInv(T)'
    BY <1>1, <1>3, <1>5, <1>9, <2>2, <2>3, HolderStep DEF Holding, Flagged
  <2>5. \A C \in Classes : ClassInv(C)'
    BY <1>1, <1>2, <2>2, <2>4, OtherClass
  <2> QED BY <1>1, <2>2, <2>5 DEF SingletonInv, SingletonTypeOK, StepOf
<1> QED BY <1>7, <1>8, <1>9

(* The thread has what GetInstance returned and the mutex is free again.   *)
LEMMA ReturnFree ==
  ASSUME NEW t \in Threads, NEW T \in Classes, ClassInv(T), StepOf(t, T),
         m_mutex'[T] = "free", m_mutex[T] \in {"free", t}, step'[t][T] = "has",
         Ready(T)', got'[t][T] = 1
  PROVE  ClassInv(T)'
<1> USE FreeIsNoThread
<1>1. \A u \in Threads : u # t => /\ step'[u][T] = step[u][T] /\ got'[u][T] = got[u][T]
                                  /\ step[u][T] \notin Holding
  BY DEF StepOf, ClassInv
<1>2. \A u \in Threads : step'[u][T] \notin Holding
  BY <1>1 DEF Holding
<1>3. \A u \in Threads : step'[u][T] = "has" => m_instance'[T] = 1 /\ got'[u][T] = 1
  BY <1>1 DEF Ready, ClassInv, At
<1> QED BY <1>2, <1>3 DEF ClassInv, At, Holding

LEMMA LockInv ==
  ASSUME SingletonInv, NEW t \in Threads, NEW T \in Classes, Lock(t, T)
  PROVE  SingletonInv' /\ StepOf(t, T)
<1> USE FreeIsNoThread
<1>1. /\ UNCHANGED <<m_instance, m_supply_flag, created, atexit, destroyed>>
      /\ SingletonTypeOK /\ (\A C \in Classes : ClassInv(C)) /\ m_mutex[T] = "free"
      /\ m_mutex \in [Classes -> Threads \cup {"free"}]
  BY DEF Lock, SingletonInv, SingletonTypeOK
<1>2. \A C : Registered(C)' <=> Registered(C)
  BY <1>1 DEF Registered
<1>3. Fresh(T) \/ Ready(T)
  BY <1>1 DEF ClassInv
<1>4. /\ Fresh(T)' <=> Fresh(T)
      /\ Ready(T)' <=> Ready(T)
  BY <1>1, <1>2, ObjectSame
<1>5. CASE m_instance[T] # 0
  <2>1. Return(t, T) /\ m_mutex' = m_mutex /\ Ready(T) /\ m_instance[T] = 1
    BY <1>3, <1>5 DEF Lock, Fresh, Ready
  <2>2. /\ step' \in [Threads -> [Classes -> Steps]] /\ step'[t][T] = "has"
        /\ \A u \in Threads, C \in Classes : u # t \/ C # T => step'[u][C] = step[u][C]
        /\ got' \in [Threads -> [Classes -> Nat]] /\ got'[t][T] = m_instance[T]
        /\ \A u \in Threads, C \in Classes : u # t \/ C # T => got'[u][C] = got[u][C]
    BY <1>1, <2>1, ReturnStep
  <2>3. StepOf(t, T)
    BY <1>1, <2>1, <2>2 DEF StepOf, SingletonTypeOK
  <2>4. ClassInv(T)'
    BY <1>1, <1>4, <2>1, <2>2, <2>3, ReturnFree
  <2>5. \A C \in Classes : ClassInv(C)'
    BY <1>1, <1>2, <2>3, <2>4, OtherClass
  <2> QED BY <1>1, <2>3, <2>5 DEF SingletonInv, SingletonTypeOK, StepOf
<1>6. CASE m_instance[T] = 0
  <2>1. Goto(t, T, "build") /\ m_mutex' = [m_mutex EXCEPT ![T] = t] /\ Fresh(T)
    BY <1>3, <1>6 DEF Lock, Fresh, Ready
  <2>2. /\ step' \in [Threads -> [Classes -> Steps]] /\ step'[t][T] = "build"
        /\ got' \in [Threads -> [Classes -> Nat]]
        /\ \A u \in Threads, C \in Classes :
             u # t \/ C # T => step'[u][C] = step[u][C] /\ got'[u][C] = got[u][C]
    BY <1>1, <2>1, GotoIs DEF Steps
  <2>3. StepOf(t, T)
    BY <1>1, <2>1, <2>2 DEF StepOf, SingletonTypeOK
  <2>4. ClassInv(T)'
    BY <1>1, <1>4, <2>1, <2>2, <2>3, HolderStep DEF Holding
  <2>5. \A C \in Classes : ClassInv(C)'
    BY <1>1, <1>2, <2>3, <2>4, OtherClass
  <2> QED BY <1>1, <2>3, <2>5 DEF SingletonInv, SingletonTypeOK, StepOf
<1> QED BY <1>5, <1>6

LEMMA AtexitInv ==
  ASSUME SingletonInv, NEW t \in Threads, NEW T \in Classes, Atexit(t, T)
  PROVE  SingletonInv' /\ StepOf(t, T)
<1> USE FreeIsNoThread
<1>1. /\ UNCHANGED <<m_instance, m_supply_flag, created, destroyed>> /\ At(t, T, "atexit")
      /\ SingletonTypeOK /\ (\A C \in Classes : ClassInv(C))
      /\ m_mutex \in [Classes -> Threads \cup {"free"}] /\ Return(t, T)
      /\ atexit' = Append(atexit, T) /\ m_mutex' = [m_mutex EXCEPT ![T] = "free"]
      /\ atexit \in Seq(Classes)
  BY DEF Atexit, SingletonInv, SingletonTypeOK
<1>2. /\ atexit' \in Seq(Classes) /\ DOMAIN atexit' = (DOMAIN atexit) \cup {Len(atexit) + 1}
      /\ atexit'[Len(atexit) + 1] = T /\ \A n \in DOMAIN atexit : atexit'[n] = atexit[n]
  BY <1>1
<1>3. /\ \A C : C # T => (Registered(C)' <=> Registered(C))
      /\ Registered(T)'
  BY <1>1, <1>2 DEF Registered
<1>4. Flagged(T) /\ m_mutex[T] = t
  BY <1>1 DEF ClassInv, At, Holding
<1>5. Ready(T)' /\ m_instance[T] = 1
  BY <1>1, <1>3, <1>4 DEF Flagged, Ready
<1>6. /\ step' \in [Threads -> [Classes -> Steps]] /\ step'[t][T] = "has"
      /\ \A u \in Threads, C \in Classes : u # t \/ C # T => step'[u][C] = step[u][C]
      /\ got' \in [Threads -> [Classes -> Nat]] /\ got'[t][T] = m_instance[T]
      /\ \A u \in Threads, C \in Classes : u # t \/ C # T => got'[u][C] = got[u][C]
  BY <1>1, ReturnStep
<1>7. StepOf(t, T)
  BY <1>1, <1>6 DEF StepOf, SingletonTypeOK
<1>8. ClassInv(T)'
  BY <1>1, <1>4, <1>5, <1>6, <1>7, ReturnFree
<1>9. \A C \in Classes : ClassInv(C)'
  BY <1>1, <1>3, <1>7, <1>8, OtherClass
<1> QED BY <1>1, <1>2, <1>7, <1>9 DEF SingletonInv, SingletonTypeOK, StepOf

LEMMA DtorInv ==
  ASSUME SingletonInv, NEW T, Dtor(T)
  PROVE  /\ SingletonInv' /\ T \in Classes
         /\ \A n \in DOMAIN atexit' : n \in DOMAIN atexit /\ atexit'[n] = atexit[n]
         /\ Len(atexit) \in DOMAIN atexit /\ T = atexit[Len(atexit)]
<1>1. /\ UNCHANGED <<m_instance, m_supply_flag, m_mutex, created, step, got>>
      /\ SingletonTypeOK /\ (\A C \in Classes : ClassInv(C)) /\ atexit \in Seq(Classes)
      /\ atexit # <<>> /\ T = atexit[Len(atexit)]
      /\ atexit' = SubSeq(atexit, 1, Len(atexit) - 1) /\ destroyed' = destroyed \cup {T}
  BY DEF Dtor, SingletonInv, SingletonTypeOK
<1>2. Len(atexit) \in Nat \ {0} /\ DOMAIN atexit = 1 .. Len(atexit) /\ T \in Classes
  BY <1>1
<1>3. 1 \in 1 .. (Len(atexit) - 1) + 1 /\ Len(atexit) - 1 \in Nat
  BY <1>2
<1>4. \A i \in 1 .. Len(atexit) - 1 : atexit[i] \in Classes
  BY <1>1, <1>2
<1>5. atexit' \in Seq(Classes)
  BY <1>1, <1>3, <1>4, SubSeqProperties
<1>6. Len(atexit') = Len(atexit) - 1
  BY <1>1, <1>2, <1>3, SubSeqProperties
<1>7. \A i \in 1 .. Len(atexit) - 1 : atexit'[i] = atexit[i]
  BY <1>1, <1>2, <1>3, SubSeqProperties
<1>8. DOMAIN atexit' = 1 .. Len(atexit) - 1
  BY <1>5, <1>6
<1>9. \A n \in DOMAIN atexit' : n \in DOMAIN atexit /\ atexit'[n] = atexit[n]
  BY <1>2, <1>7, <1>8
<1>10. \A n \in DOMAIN atexit : n \in DOMAIN atexit' \/ n = Len(atexit)
  BY <1>2, <1>8
<1>11. \A C : Registered(C)' <=> Registered(C)
  BY <1>1, <1>2, <1>9, <1>10 DEF Registered
<1>12. ASSUME NEW C \in Classes PROVE ClassInv(C)'
  <2>1. /\ Fresh(C)' <=> Fresh(C)
        /\ Made(C)' <=> Made(C)
        /\ Stored(C)' <=> Stored(C)
        /\ Flagged(C)' <=> Flagged(C)
        /\ Ready(C)' <=> Ready(C)
    BY <1>1, <1>11, ObjectSame
  <2> QED BY <1>1, <2>1 DEF ClassInv, At
<1>13. SingletonTypeOK'
  BY <1>1, <1>2, <1>5 DEF SingletonTypeOK
<1> QED BY <1>1, <1>2, <1>9, <1>12, <1>13 DEF SingletonInv

(* Every step in GetInstance.                                              *)
LEMMA SingletonStep ==
  ASSUME SingletonInv, NEW t \in Threads, NEW T \in Classes,
         GetInstance(t, T) \/ InInit(t, T) \/ Built(t, T) \/ Leave(t, T)
  PROVE  SingletonInv' /\ StepOf(t, T)
BY LeaveInv, ConstructInv, LockInv, AtexitInv DEF InInit

LEMMA SingletonSame ==
  ASSUME SingletonInv, UNCHANGED single
  PROVE  SingletonInv'
<1>1. /\ SingletonTypeOK' /\ \A C \in Classes : ClassInv(C)
      /\ UNCHANGED <<m_instance, m_supply_flag, m_mutex, created, step, got>>
  BY DEF SingletonInv, SingletonTypeOK, single
<1>2. \A C : Registered(C)' <=> Registered(C)
  BY DEF Registered, single
<1>3. ASSUME NEW C \in Classes PROVE ClassInv(C)'
  <2>1. /\ Fresh(C)' <=> Fresh(C)
        /\ Made(C)' <=> Made(C)
        /\ Stored(C)' <=> Stored(C)
        /\ Flagged(C)' <=> Flagged(C)
        /\ Ready(C)' <=> Ready(C)
    BY <1>1, <1>2, ObjectSame
  <2> QED BY <1>1, <2>1 DEF ClassInv, At
<1> QED BY <1>1, <1>3 DEF SingletonInv

(* What the steps of GetInstance do to the rest of the state.              *)
LEMMA StepFacts ==
  ASSUME SingletonInv, NEW t \in Threads, NEW T \in Classes
  PROVE  /\ GetInstance(t, T) => /\ step[t][T] = "out" /\ step'[t][T] \in {"load", "has"}
                                 /\ UNCHANGED <<m_instance, atexit, destroyed>>
         /\ Built(t, T) => /\ step[t][T] = "build" /\ step'[t][T] = "store"
                           /\ UNCHANGED <<m_instance, atexit, destroyed>>
         /\ Leave(t, T) => /\ step[t][T] = "has" /\ step'[t][T] = "out"
                           /\ UNCHANGED <<m_instance, atexit, destroyed>>
         /\ InInit(t, T) => /\ step[t][T] \notin {"out", "build", "has"} /\ step'[t][T] # "out"
                            /\ UNCHANGED destroyed
                            /\ atexit' = atexit \/ atexit' = Append(atexit, T)
                            /\ \A C \in Classes : m_instance[C] = 1 => m_instance'[C] = 1
<1>1. SingletonTypeOK /\ ClassInv(T) /\ step \in [Threads -> [Classes -> Steps]]
  BY DEF SingletonInv, SingletonTypeOK
<1>2. \A s \in Steps : Goto(t, T, s) => step'[t][T] = s
  BY <1>1, GotoIs
<1>3. Return(t, T) => step'[t][T] = "has"
  BY <1>1, ReturnStep
<1>4. {"out", "load", "lock", "build", "store", "flag", "atexit", "has"} = Steps
  BY DEF Steps
<1>5. GetInstance(t, T) => /\ step[t][T] = "out" /\ step'[t][T] \in {"load", "has"}
                           /\ UNCHANGED <<m_instance, atexit, destroyed>>
  BY <1>2, <1>3, <1>4 DEF GetInstance, At
<1>6. Built(t, T) => /\ step[t][T] = "build" /\ step'[t][T] = "store"
                     /\ UNCHANGED <<m_instance, atexit, destroyed>>
  BY <1>2, <1>4 DEF Built, At
<1>7. Leave(t, T) => /\ step[t][T] = "has" /\ step'[t][T] = "out"
                     /\ UNCHANGED <<m_instance, atexit, destroyed>>
  BY <1>2, <1>4 DEF Leave, At
<1>8. InInit(t, T) => /\ step[t][T] \notin {"out", "build", "has"} /\ step'[t][T] # "out"
                      /\ UNCHANGED destroyed
                      /\ atexit' = atexit \/ atexit' = Append(atexit, T)
  BY <1>2, <1>3, <1>4 DEF InInit, Load, Lock, Store, SetFlag, Atexit, At
<1>9. ASSUME InInit(t, T), NEW C \in Classes, m_instance[C] = 1 PROVE m_instance'[C] = 1
  <2>1. CASE Store(t, T)
    <3>1. Made(T) /\ m_instance' = [m_instance EXCEPT ![T] = created[T]]
      BY <1>1, <2>1 DEF Store, ClassInv
    <3>2. C # T
      BY <1>9, <3>1 DEF Made
    <3> QED BY <1>1, <1>9, <3>1, <3>2 DEF SingletonTypeOK
  <2>2. CASE ~Store(t, T)
    BY <1>9, <2>2 DEF InInit, Load, Lock, SetFlag, Atexit
  <2> QED BY <2>1, <2>2
<1> QED BY <1>5, <1>6, <1>7, <1>8, <1>9

-----------------------------------------------------------------------------
(* Steps of Framework                                                      *)

LEMMA StageIs ==
  /\ DOMAIN Order = 1 .. 5 /\ Len(Order) = 5
  /\ Stage("DirMonitor") <=> stage = 1
  /\ Stage("DLLLoader") <=> stage = 2
  /\ Stage("register") <=> stage = 3
  /\ Stage("Factory") <=> stage = 4
  /\ Stage("run") <=> stage = 5
  /\ Exiting <=> stage \notin 1 .. 5
<1>1. /\ DOMAIN Order = 1 .. 5 /\ Len(Order) = 5
      /\ Order[1] = "DirMonitor" /\ Order[2] = "DLLLoader" /\ Order[3] = "register"
      /\ Order[4] = "Factory" /\ Order[5] = "run"
  BY DEF Order
<1>2. \A k \in 1 .. 5 : k = 1 \/ k = 2 \/ k = 3 \/ k = 4 \/ k = 5
  OBVIOUS
<1> QED BY <1>1, <1>2 DEF Stage, Exiting

LEMMA Names ==
  /\ "main" \in Threads /\ "monitor" \in Threads
  /\ \A t \in Threads : t = "main" \/ t = "monitor"
  /\ "DirMonitor" \in Classes /\ "DLLLoader" \in Classes /\ "Factory" \in Classes
  /\ \A T \in Classes : T = "DirMonitor" \/ T = "DLLLoader" \/ T = "Factory"
BY FrameworkAssumption

(* Every step is one of GetInstance, a destructor, or leaves the           *)
(* singletons alone.                                                       *)
LEMMA SingletonNext == SingletonInv /\ [Next]_vars => SingletonInv'
<1> SUFFICES ASSUME SingletonInv, [Next]_vars PROVE SingletonInv'
  OBVIOUS
<1>1. CASE UNCHANGED single
  BY <1>1, SingletonSame
<1>2. CASE \E t \in Threads, T \in Classes :
             GetInstance(t, T) \/ InInit(t, T) \/ Built(t, T) \/ Leave(t, T)
  BY <1>2, SingletonStep
<1>3. CASE \E T : Dtor(T)
  BY <1>3, DtorInv
<1>4. CASE Monitor
  <2>1. CASE LoadStep("monitor")
    BY <1>1, <1>2, <2>1, Names DEF LoadStep, Dlopen, CallFactory, AddBegin, AddEnd
  <2>2. CASE Getting("monitor") \/ BuildFactory("monitor")
    BY <1>2, <2>2, Names DEF Getting, BuildFactory
  <2>3. CASE Read \/ Notify \/ Unlock
    BY <1>1, <2>3 DEF Read, Notify, Unlock
  <2> QED BY <1>4, <2>1, <2>2, <2>3 DEF Monitor
<1>5. CASE Main
  <2>1. CASE LoadStep("main")
    BY <1>1, <1>2, <2>1, Names DEF LoadStep, Dlopen, CallFactory, AddBegin, AddEnd
  <2>2. CASE Getting("main") \/ BuildFactory("main") \/ BuildMonitor \/ BuildLoader
    BY <1>2, <2>2, Names DEF Getting, BuildFactory, BuildMonitor, BuildLoader
  <2>3. CASE \E T \in Classes : MainGet(T) \/ MainNext(T)
    BY <1>2, <2>3, Names DEF MainGet, MainNext
  <2>4. CASE DestroyFactory \/ DestroyLoader \/ Join
    BY <1>3, <2>4 DEF DestroyFactory, DestroyLoader, Join
  <2>5. CASE (\E p \in Plugins : Scan(p)) \/ DMRegister \/ MainAdd \/ Touch \/ CloseNull
    BY <1>1, <2>5 DEF Scan, DMRegister, MainAdd, Touch, CloseNull
  <2> QED BY <1>5, <2>1, <2>2, <2>3, <2>4, <2>5 DEF Main
<1>6. CASE Exit \/ Directory \/ UNCHANGED vars
  BY <1>1, <1>6 DEF Exit, Directory, ForeignExit, Create, Write, MoveIn, vars
<1> QED BY <1>4, <1>5, <1>6 DEF Next

(* Events                                                                  *)

LEMMA EventFields ==
  ASSUME NEW m, NEW n
  PROVE  [mask |-> m, name |-> n].mask = m /\ [mask |-> m, name |-> n].name = n
OBVIOUS

LEMMA ReportIs ==
  ASSUME Libs, NEW m \in Masks, NEW x \in Plugins \cup {"exit.txt"}, Report(m, x)
  PROVE  /\ events' \in Seq(Events)
         /\ \A n \in DOMAIN events' :
              \/ n \in DOMAIN events /\ events'[n] = events[n]
              \/ n = Len(events) + 1 /\ events'[n] = [mask |-> m, name |-> x]
<1>1. events \in Seq(Events) /\ [mask |-> m, name |-> x] \in Events
  BY DEF Libs, Events
<1>2. CASE Watched
  <2>1. events' = Append(events, [mask |-> m, name |-> x])
    BY <1>2 DEF Report
  <2> QED BY <1>1, <2>1
<1>3. CASE ~Watched
  BY <1>1, <1>3 DEF Report
<1> QED BY <1>2, <1>3

LEMMA ReadIs ==
  ASSUME Libs, events # <<>>, events' = Tail(events)
  PROVE  /\ events' \in Seq(Events) /\ Head(events) \in Events /\ Head(events) = events[1]
         /\ 1 \in DOMAIN events
         /\ \A n \in DOMAIN events' : /\ n + 1 \in DOMAIN events /\ events'[n] = events[n + 1]
                                      /\ n \in Nat \ {0}
BY DEF Libs

LEMMA PlainNext ==
  ASSUME Inv, [Next]_vars
  PROVE  Plain' /\ Libs'
<1> USE DEF dirVars, dllVars
<1>1. Plain /\ Libs /\ stage \in -3 .. 5
  BY DEF Inv, Plain
<1>2. CASE Directory
  <2>1. CASE ForeignExit
    <3>1. events' \in Seq(Events)
      BY <1>1, <2>1, ReportIs DEF ForeignExit, Masks
    <3> QED BY <1>1, <2>1, <3>1 DEF ForeignExit, Plain, Libs
  <2>2. ASSUME NEW p \in Plugins, Create(p) \/ Write(p) \/ MoveIn(p) PROVE Plain' /\ Libs'
    <3>1. events' \in Seq(Events)
      BY <1>1, <2>2, ReportIs DEF Create, Write, MoveIn, Masks
    <3>2. /\ file' \in [Plugins -> {"absent", "partial", "whole"}] /\ due' \subseteq Plugins
      BY <1>1, <2>2 DEF Create, Write, MoveIn, Plain
    <3>3. UNCHANGED <<dllVars, stage, toScan, registered, dm_mutex, monitor, foreign, scanned>>
      BY <2>2 DEF Create, Write, MoveIn
    <3> QED BY <1>1, <3>1, <3>2, <3>3 DEF Plain, Libs
  <2> QED BY <1>2, <2>1, <2>2 DEF Directory
<1>3. ASSUME NEW t \in Threads, LoadStep(t) PROVE Plain' /\ Libs'
  <2>1. CASE Dlopen(t)
    <3>1. lib[t] \in Plugins
      BY <1>1, <2>1 DEF Dlopen, Libs
    <3>2. opens' \in [Plugins -> Nat] /\ nulls' \in BOOLEAN
      BY <1>1, <2>1, <3>1 DEF Dlopen, Plain
    <3>3. /\ work' \in [Threads -> {"none", "dlopen", "init", "add", "added"}]
          /\ work'[t] \in {"none", "init"} /\ \A u \in Threads : u # t => work'[u] = work[u]
      BY <1>1, <2>1 DEF Dlopen, Plain
    <3>4. UNCHANGED <<dirVars, lib, copy, m_map, stage, toScan, registered, dm_mutex,
                      monitor, scanned, due>>
      BY <2>1 DEF Dlopen
    <3>5. Plain'
      BY <1>1, <3>2, <3>3, <3>4 DEF Plain
    <3> QED BY <1>1, <3>1, <3>3, <3>4, <3>5 DEF Libs
  <2>2. CASE CallFactory(t) \/ AddBegin(t)
    <3>1. /\ work' \in [Threads -> {"none", "dlopen", "init", "add", "added"}]
          /\ work[t] # "none" /\ work'[t] \in {"add", "added"}
          /\ \A u \in Threads : u # t => work'[u] = work[u]
      BY <1>1, <2>2 DEF CallFactory, AddBegin, Plain
    <3>2. copy' \in [Threads -> SUBSET (Plugins \cup {"main"})]
      BY <1>1, <2>2 DEF CallFactory, AddBegin, Plain, Libs
    <3>3. UNCHANGED <<dirVars, lib, opens, nulls, m_map, stage, toScan, registered, dm_mutex,
                      monitor, scanned, due>>
      BY <2>2 DEF CallFactory, AddBegin
    <3>4. Plain'
      BY <1>1, <3>1, <3>3 DEF Plain
    <3> QED BY <1>1, <3>1, <3>2, <3>3, <3>4 DEF Libs
  <2>3. CASE AddEnd(t)
    <3>1. /\ work' \in [Threads -> {"none", "dlopen", "init", "add", "added"}]
          /\ work[t] # "none" /\ work'[t] = "none"
          /\ \A u \in Threads : u # t => work'[u] = work[u]
      BY <1>1, <2>3 DEF AddEnd, Plain
    <3>2. /\ copy' \in [Threads -> SUBSET (Plugins \cup {"main"})]
          /\ m_map' \subseteq Plugins \cup {"main"}
      BY <1>1, <2>3, <3>1 DEF AddEnd, Libs
    <3>3. UNCHANGED <<dirVars, lib, opens, nulls, stage, toScan, registered, dm_mutex,
                      monitor, scanned, due>>
      BY <2>3 DEF AddEnd
    <3>4. Plain'
      BY <1>1, <3>1, <3>2, <3>3 DEF Plain
    <3> QED BY <1>1, <3>1, <3>2, <3>3, <3>4 DEF Libs
  <2> QED BY <1>3, <2>1, <2>2, <2>3 DEF LoadStep
<1>4. CASE Read \/ Notify \/ Unlock
  <2>1. CASE Read
    <3>1. events' \in Seq(Events) /\ Head(events) \in Events
      BY <1>1, <2>1, ReadIs DEF Read
    <3>2. /\ monitor' \in {"read", "gone", "lock"}
          /\ monitor' = "lock" => Loads(Head(events))
          /\ lib' = IF Loads(Head(events)) THEN [lib EXCEPT !["monitor"] = Head(events).name] ELSE lib
          /\ UNCHANGED <<file, foreign, work, copy, opens, nulls, m_map, stage, toScan, registered,
                         dm_mutex, scanned, due>>
      BY <2>1 DEF Read
    <3>3. Plain'
      BY <1>1, <3>2 DEF Plain
    <3>4. CASE Loads(Head(events))
      <4>1. Head(events).name \in Plugins
        BY <3>4 DEF Loads
      <4>2. /\ lib' \in [Threads -> Plugins \cup {"main", "none"}] /\ lib'["monitor"] \in Plugins
            /\ \A t \in Threads : t # "monitor" => lib'[t] = lib[t]
        BY <1>1, <3>2, <3>4, <4>1, Names DEF Libs
      <4> QED BY <1>1, <3>1, <3>2, <3>3, <4>2 DEF Libs
    <3>5. CASE ~Loads(Head(events))
      BY <1>1, <3>1, <3>2, <3>3, <3>5 DEF Libs
    <3> QED BY <3>4, <3>5
  <2>2. CASE Notify
    <3>1. /\ work' \in [Threads -> {"none", "dlopen", "init", "add", "added"}]
          /\ \A u \in Threads : u # "monitor" => work'[u] = work[u]
          /\ monitor = "lock" /\ monitor' = "notify" /\ dm_mutex' = "monitor"
          /\ UNCHANGED <<dirVars, lib, copy, opens, nulls, m_map, stage, toScan, registered, scanned, due>>
      BY <1>1, <2>2 DEF Notify, Plain
    <3>2. Plain'
      BY <1>1, <3>1 DEF Plain
    <3> QED BY <1>1, <3>1, <3>2 DEF Libs
  <2>3. CASE Unlock
    BY <1>1, <2>3 DEF Unlock, Plain, Libs
  <2> QED BY <1>4, <2>1, <2>2, <2>3
<1>5. ASSUME NEW p \in Plugins, Scan(p) PROVE Plain' /\ Libs'
  <2>1. /\ work' \in [Threads -> {"none", "dlopen", "init", "add", "added"}]
        /\ \A u \in Threads : u # "main" => work'[u] = work[u] /\ lib'[u] = lib[u]
        /\ lib' \in [Threads -> Plugins \cup {"main", "none"}] /\ lib'["main"] = p
    BY <1>1, <1>5, Names DEF Scan, Plain, Libs
  <2>2. /\ toScan' \subseteq Plugins /\ scanned' \subseteq Plugins /\ due' \subseteq Plugins
    BY <1>1, <1>5 DEF Scan, Plain
  <2>3. UNCHANGED <<dirVars, copy, opens, nulls, m_map, stage, registered, dm_mutex, monitor>>
    BY <1>5 DEF Scan
  <2>4. Plain'
    BY <1>1, <2>1, <2>2, <2>3 DEF Plain
  <2> QED BY <1>1, <2>1, <2>3, <2>4, Names DEF Libs
<1>6. CASE MainAdd
  <2>1. /\ work' \in [Threads -> {"none", "dlopen", "init", "add", "added"}] /\ work'["main"] = "add"
        /\ \A u \in Threads : u # "main" => work'[u] = work[u] /\ lib'[u] = lib[u]
        /\ lib' \in [Threads -> Plugins \cup {"main", "none"}] /\ lib'["main"] = "main"
    BY <1>1, <1>6, Names DEF MainAdd, Plain, Libs
  <2>2. stage' \in -3 .. 5
    BY <1>1, <1>6, StageIs DEF MainAdd, Advance
  <2>3. UNCHANGED <<dirVars, copy, opens, nulls, m_map, toScan, registered, dm_mutex, monitor, scanned, due>>
    BY <1>6 DEF MainAdd
  <2>4. Plain'
    BY <1>1, <2>1, <2>2, <2>3 DEF Plain
  <2> QED BY <1>1, <2>1, <2>3, <2>4, Names DEF Libs
<1>7. CASE \/ Getting("main") \/ Getting("monitor") \/ BuildFactory("main") \/ BuildFactory("monitor")
           \/ BuildLoader \/ (\E T \in Classes : MainGet(T)) \/ UNCHANGED vars
  BY <1>1, <1>7 DEF Getting, BuildFactory, BuildLoader, MainGet, vars, Plain, Libs
<1>8. CASE BuildMonitor
  BY <1>1, <1>8 DEF BuildMonitor, Plain, Libs
<1>9. CASE (\E T \in Classes : MainNext(T)) \/ DMRegister
  <2>1. stage' \in -3 .. 5 /\ registered' \in BOOLEAN
    <3>1. stage \in {1, 2, 3} /\ stage' = stage + 1
      BY <1>9, StageIs DEF MainNext, DMRegister, Advance
    <3>2. registered' \in BOOLEAN
      BY <1>1, <1>9 DEF MainNext, DMRegister, Register, Plain
    <3> QED BY <3>1, <3>2
  <2>2. UNCHANGED <<dirVars, dllVars, toScan, dm_mutex, monitor, scanned, due>>
    BY <1>9 DEF MainNext, DMRegister
  <2> QED BY <1>1, <2>1, <2>2 DEF Plain, Libs
<1>10. CASE Exit \/ Join \/ CloseNull
  BY <1>1, <1>10 DEF Exit, Join, CloseNull, Crashed, Plain, Libs
<1>11. CASE DestroyFactory
  BY <1>1, <1>11 DEF DestroyFactory, Plain, Libs
<1>12. CASE DestroyLoader
  BY <1>1, <1>12 DEF DestroyLoader, Unregister, Plain, Libs
<1>13. CASE Touch
  <2>1. events' \in Seq(Events)
    BY <1>1, <1>13, ReportIs DEF Touch, Masks
  <2> QED BY <1>1, <1>13, <2>1 DEF Touch, Plain, Libs
<1> QED BY <1>2, <1>3, <1>4, <1>5, <1>6, <1>7, <1>8, <1>9, <1>10, <1>11, <1>12, <1>13, Names
     DEF Next, Main, Monitor

(* A step of t in T leaves the other threads and classes where they are.   *)
LEMMA Others ==
  ASSUME SingletonInv, NEW t \in Threads, NEW T \in Classes,
         GetInstance(t, T) \/ InInit(t, T) \/ Built(t, T) \/ Leave(t, T)
  PROVE  /\ \A u \in Threads, C \in Classes : u # t \/ C # T => step'[u][C] = step[u][C]
         /\ \A C \in Classes : m_instance[C] = 1 => m_instance'[C] = 1
         /\ \A C \in Classes : C # T => m_instance'[C] = m_instance[C]
         /\ destroyed' = destroyed
<1>1. StepOf(t, T)
  BY SingletonStep
<1>2. /\ \A C \in Classes : m_instance[C] = 1 => m_instance'[C] = 1
      /\ destroyed' = destroyed
  BY StepFacts
<1> QED BY <1>1, <1>2 DEF StepOf

LEMMA WhereNext ==
  ASSUME Inv, [Next]_vars
  PROVE  Where'
<1> USE DEF dirVars, dllVars
<1>1. SingletonInv /\ Plain /\ Libs /\ Where /\ stage \in -3 .. 5
      /\ work \in [Threads -> {"none", "dlopen", "init", "add", "added"}]
  BY DEF Inv, Plain
<1>2. CASE \/ Directory \/ Touch \/ CloseNull \/ UNCHANGED vars
  BY <1>1, <1>2
   DEF Directory, ForeignExit, Create, Write, MoveIn, Touch, CloseNull, Crashed, vars, single, Where
<1>3. ASSUME NEW t \in Threads, LoadStep(t) PROVE Where'
  <2>1. CASE Dlopen(t) \/ AddBegin(t)
    <3>1. /\ UNCHANGED <<single, stage, monitor, registered>> /\ work[t] # "none"
          /\ work[t] = "dlopen" => work'[t] \in {"none", "init"}
          /\ work[t] # "dlopen" => /\ work[t] = "add" /\ work'[t] = "added"
                                   /\ step[t]["Factory"] = "has"
          /\ \A u \in Threads : u # t => work'[u] = work[u]
      BY <1>1, <2>1 DEF Dlopen, AddBegin, At
    <3> QED BY <1>1, <3>1, Names DEF Where, single
  <2>2. CASE CallFactory(t)
    <3>1. /\ UNCHANGED <<stage, monitor, registered>> /\ work[t] = "init" /\ work'[t] = "add"
          /\ GetInstance(t, "Factory")
          /\ \A u \in Threads : u # t => work'[u] = work[u]
      BY <1>1, <2>2 DEF CallFactory
    <3>2. /\ \A u \in Threads, C \in Classes : u # t \/ C # "Factory" => step'[u][C] = step[u][C]
          /\ m_instance["Factory"] = 1 => m_instance'["Factory"] = 1
          /\ destroyed' = destroyed
      BY <1>1, <3>1, Others, Names
    <3> QED BY <1>1, <3>1, <3>2, Names DEF Where
  <2>3. CASE AddEnd(t)
    <3>1. /\ UNCHANGED <<stage, monitor, registered>> /\ work[t] = "added" /\ work'[t] = "none"
          /\ Leave(t, "Factory")
          /\ \A u \in Threads : u # t => work'[u] = work[u]
      BY <1>1, <2>3 DEF AddEnd
    <3>2. /\ \A u \in Threads, C \in Classes : u # t \/ C # "Factory" => step'[u][C] = step[u][C]
          /\ m_instance["Factory"] = 1 => m_instance'["Factory"] = 1
          /\ destroyed' = destroyed /\ step'[t]["Factory"] = "out"
      BY <1>1, <3>1, Others, StepFacts, Names
    <3> QED BY <1>1, <3>1, <3>2, Names DEF Where
  <2> QED BY <1>3, <2>1, <2>2, <2>3 DEF LoadStep
<1>4. ASSUME NEW t \in Threads, Getting(t) \/ BuildFactory(t) PROVE Where'
  <2>1. PICK T \in Classes : InInit(t, T) \/ (T = "Factory" /\ Built(t, T))
    BY <1>4, Names DEF Getting, BuildFactory
  <2>2. UNCHANGED <<stage, monitor, registered, work>>
    BY <1>4 DEF Getting, BuildFactory
  <2>3. /\ \A u \in Threads, C \in Classes : u # t \/ C # T => step'[u][C] = step[u][C]
        /\ m_instance["Factory"] = 1 => m_instance'["Factory"] = 1
        /\ destroyed' = destroyed
    BY <1>1, <2>1, Others, Names
  <2>4. /\ step[t][T] # "out" /\ step[t][T] # "has" /\ step'[t][T] # "out"
        /\ T = "Factory" \/ step[t][T] # "build"
    BY <1>1, <2>1, StepFacts
  <2> QED BY <1>1, <2>2, <2>3, <2>4, Names DEF Where
<1>5. ASSUME NEW T \in Classes, MainGet(T) PROVE Where'
  <2>1. /\ UNCHANGED <<stage, monitor, registered, work>> /\ work["main"] = "none"
        /\ GetInstance("main", T)
        /\ T = "DirMonitor" => stage = 1
        /\ T = "DLLLoader" => stage = 2
        /\ T = "Factory" => stage = 4
    BY <1>5, StageIs DEF MainGet, Idle
  <2>2. /\ \A u \in Threads, C \in Classes : u # "main" \/ C # T => step'[u][C] = step[u][C]
        /\ m_instance["Factory"] = 1 => m_instance'["Factory"] = 1
        /\ destroyed' = destroyed
    BY <1>1, <2>1, Others, Names
  <2> QED BY <1>1, <2>1, <2>2, Names DEF Where
<1>6. CASE BuildMonitor \/ BuildLoader
  <2>1. PICK T \in {"DirMonitor", "DLLLoader"} : Built("main", T)
    BY <1>6 DEF BuildMonitor, BuildLoader
  <2>2. /\ UNCHANGED <<stage, registered, work>>
        /\ stage = 1 \/ (work["main"] = "none" /\ stage = 2)
        /\ monitor' = monitor \/ stage = 1
    <3>1. CASE BuildMonitor
      BY <3>1, StageIs DEF BuildMonitor
    <3>2. CASE BuildLoader
      BY <3>2, StageIs DEF BuildLoader, Idle
    <3> QED BY <1>6, <3>1, <3>2
  <2>3. T \in Classes /\ T # "Factory"
    BY Names
  <2>4. /\ \A u \in Threads, C \in Classes : u # "main" \/ C # T => step'[u][C] = step[u][C]
        /\ m_instance["Factory"] = 1 => m_instance'["Factory"] = 1
        /\ destroyed' = destroyed /\ step["main"][T] = "build"
    <3>1. step["main"][T] = "build"
      BY <2>1 DEF Built, At
    <3>2. "main" \in Threads /\ "Factory" \in Classes
      BY Names
    <3>3. /\ \A u \in Threads, C \in Classes : u # "main" \/ C # T => step'[u][C] = step[u][C]
          /\ \A C \in Classes : m_instance[C] = 1 => m_instance'[C] = 1
          /\ destroyed' = destroyed
      BY <1>1, <2>1, <2>3, <3>2, Others
    <3> QED BY <3>1, <3>2, <3>3
  <2> QED BY <1>1, <2>2, <2>3, <2>4, Names DEF Where
<1>7. ASSUME NEW T \in Classes, MainNext(T) PROVE Where'
  <2>1. /\ UNCHANGED <<monitor, registered, work>> /\ stage' = stage + 1 /\ Leave("main", T)
        /\ T \in {"DirMonitor", "DLLLoader"}
        /\ T = "DirMonitor" => stage = 1
        /\ T = "DLLLoader" => stage = 2
    BY <1>7, StageIs DEF MainNext, Advance
  <2>2. /\ \A u \in Threads, C \in Classes : u # "main" \/ C # T => step'[u][C] = step[u][C]
        /\ m_instance["Factory"] = 1 => m_instance'["Factory"] = 1
        /\ destroyed' = destroyed /\ step["main"][T] = "has" /\ step'["main"][T] = "out"
    <3>1. step["main"][T] = "has" /\ step'["main"][T] = "out"
      BY <1>1, <2>1, StepFacts, Names
    <3> QED BY <1>1, <2>1, <3>1, Others, Names
  <2>3. stage \in {1, 2} /\ stage' \in {2, 3} /\ work["main"] = "none"
    BY <1>1, <2>1, <2>2 DEF Where
  <2> QED BY <1>1, <2>1, <2>2, <2>3, Names DEF Where
<1>8. ASSUME NEW p \in Plugins, Scan(p) PROVE Where'
  <2>1. /\ UNCHANGED <<single, monitor, registered, stage>> /\ stage = 2
        /\ step["main"]["DLLLoader"] = "build" /\ work["main"] = "none"
        /\ work'["main"] \in {"none", "dlopen"} /\ work'["monitor"] = work["monitor"]
    BY <1>1, <1>8, StageIs, Names DEF Scan, Idle, At
  <2> QED BY <1>1, <2>1, Names DEF Where, single
<1>9. CASE DMRegister
  <2>1. UNCHANGED <<single, monitor, work>> /\ stage = 3 /\ stage' = 4
    BY <1>9, StageIs DEF DMRegister, Advance
  <2> QED BY <1>1, <2>1, Names DEF Where, single
<1>10. CASE MainAdd
  <2>1. /\ UNCHANGED <<single, monitor, registered>> /\ stage = 4 /\ stage' = 5
        /\ step["main"]["Factory"] = "has" /\ work["main"] = "none"
        /\ work'["main"] = "add" /\ work'["monitor"] = work["monitor"]
    BY <1>1, <1>10, StageIs, Names DEF MainAdd, Advance, Idle, At
  <2>2. m_instance["Factory"] = 1
    BY <1>1, <2>1, Names DEF SingletonInv, ClassInv, At
  <2> QED BY <1>1, <2>1, <2>2, Names DEF Where, single
<1>11. CASE Exit
  <2>1. UNCHANGED <<single, monitor, registered, work>> /\ stage = 5 /\ stage' = 0
        /\ work["main"] = "none"
    BY <1>11, StageIs DEF Exit, Idle
  <2> QED BY <1>1, <2>1, Names DEF Where, single
<1>12. CASE DestroyFactory \/ DestroyLoader \/ Join
  <2>1. /\ UNCHANGED <<monitor, work, step, m_instance>> /\ stage \in {0, -1} /\ stage' \in {0, -2}
    BY <1>12 DEF DestroyFactory, DestroyLoader, Join, Dtor
  <2> QED BY <1>1, <2>1, Names DEF Where
<1>13. CASE Read \/ Notify \/ Unlock
  <2>1. /\ UNCHANGED <<single, registered, stage>> /\ work'["main"] = work["main"]
        /\ \/ monitor = "read" /\ work' = work
           \/ monitor = "lock" /\ monitor' = "notify" /\ (work'["monitor"] # "none" => registered)
              /\ work'["monitor"] \in {"none", "dlopen"}
           \/ monitor' = "read" /\ work["monitor"] = "none" /\ work' = work
    BY <1>1, <1>13, Names DEF Read, Notify, Unlock, Idle
  <2> QED BY <1>1, <2>1, Names DEF Where, single
<1> QED BY <1>2, <1>3, <1>4, <1>5, <1>6, <1>7, <1>8, <1>9, <1>10, <1>11, <1>12, <1>13, Names
     DEF Next, Main, Monitor

-----------------------------------------------------------------------------
(* How often a plugin is opened                                            *)

LEMMA Shrinks ==
  ASSUME Plain, Budget, NEW p \in Plugins, opens'[p] = opens[p],
         MainOwes(p)' => MainOwes(p), MonitorOwes(p)' => MonitorOwes(p)
  PROVE  opens'[p] <= Bound(p)'
<1>1. opens[p] <= Bound(p) /\ opens[p] \in Nat
  BY DEF Plain, Budget
<1>2. Bound(p) <= Bound(p)' /\ Bound(p) \in Nat /\ Bound(p)' \in Nat
  BY DEF Bound
<1> QED BY <1>1, <1>2

LEMMA BudgetSame ==
  ASSUME Plain, Budget, UNCHANGED <<file, events, toScan, opens, lib>>,
         work'["main"] = "dlopen" => work["main"] = "dlopen",
         monitor' = "lock" \/ work'["monitor"] = "dlopen" =>
           monitor = "lock" \/ work["monitor"] = "dlopen"
  PROVE  Budget'
<1>1. \A p : /\ Pending(p)' <=> Pending(p)
             /\ AtMonitor(p)' => AtMonitor(p)
             /\ MainOwes(p)' => MainOwes(p)
             /\ MonitorOwes(p)' => MonitorOwes(p)
  BY DEF Pending, AtMonitor, MainOwes, MonitorOwes, Loads
<1>2. \A p \in Plugins : opens'[p] <= Bound(p)'
  BY <1>1, Shrinks
<1> QED BY <1>1, <1>2 DEF Budget, Loads

LEMMA ArrivalBudget ==
  ASSUME Inv, NEW p \in Plugins, Create(p) \/ Write(p) \/ MoveIn(p)
  PROVE  Budget'
<1> USE DEF dirVars, dllVars
<1>1. Plain /\ Libs /\ Budget /\ UNCHANGED <<work, lib, opens, toScan, monitor>>
  BY DEF Create, Write, MoveIn, Inv
<1>2. PICK m \in {"IN_CREATE", "IN_MODIFY", "IN_MOVED_TO"} :
        /\ Report(m, p) /\ (m # "IN_MODIFY" => file[p] = "absent")
        /\ \E v \in {"partial", "whole"} : file' = [file EXCEPT ![p] = v]
  BY DEF Create, Write, MoveIn
<1>3. /\ events' \in Seq(Events) /\ events \in Seq(Events)
      /\ \A n \in DOMAIN events' :
           \/ n \in DOMAIN events /\ events'[n] = events[n]
           \/ n = Len(events) + 1 /\ events'[n] = [mask |-> m, name |-> p]
  BY <1>1, <1>2, ReportIs DEF Masks, Libs
<1>4. /\ file'[p] # "absent" /\ \A q \in Plugins : q # p => file'[q] = file[q]
  BY <1>1, <1>2 DEF Plain
<1>5. ASSUME NEW n \in DOMAIN events', Loads(events'[n])
      PROVE  \/ n \in DOMAIN events /\ events'[n] = events[n]
             \/ /\ n = Len(events) + 1 /\ events'[n].name = p
                /\ file[p] = "absent" /\ ~Pending(p) /\ ~AtMonitor(p)
  <2>1. CASE n \in DOMAIN events /\ events'[n] = events[n]
    BY <2>1
  <2>2. CASE n = Len(events) + 1 /\ events'[n] = [mask |-> m, name |-> p]
    <3>1. events'[n].mask = m /\ events'[n].name = p
      BY <2>2
    <3>2. m # "IN_MODIFY"
      BY <1>5, <3>1 DEF Loads
    <3> QED BY <1>1, <1>2, <2>2, <3>1, <3>2 DEF Budget
  <2> QED BY <1>3, <2>1, <2>2
<1>6. \A q \in Plugins :
        /\ Pending(q)' => Pending(q) \/ (q = p /\ file[p] = "absent" /\ ~AtMonitor(p))
        /\ AtMonitor(q)' <=> AtMonitor(q)
        /\ MainOwes(q)' <=> MainOwes(q)
  <2>1. \A q : Loads(q)' <=> Loads(q)
    BY DEF Loads
  <2> QED BY <1>1, <1>5 DEF Pending, AtMonitor, MainOwes, Loads
<1>7. \A q \in Plugins : MonitorOwes(q)' => MonitorOwes(q)
  BY <1>4, <1>6 DEF MonitorOwes
<1>8. \A q \in Plugins : opens'[q] <= Bound(q)'
  BY <1>1, <1>6, <1>7, Shrinks
<1>9. \A q \in Plugins :
        /\ Pending(q)' => file'[q] # "absent" /\ ~AtMonitor(q)'
        /\ AtMonitor(q)' => file'[q] # "absent"
        /\ work'["main"] = "dlopen" /\ lib'["main"] = q => q \notin toScan'
  BY <1>1, <1>4, <1>6 DEF Budget
<1>10. ASSUME NEW a \in DOMAIN events', NEW b \in DOMAIN events', Loads(events'[a]),
              Loads(events'[b]), events'[a].name = events'[b].name
       PROVE  a = b
  BY <1>1, <1>5, <1>10 DEF Budget, Pending
<1> QED BY <1>8, <1>9, <1>10 DEF Budget, Loads

LEMMA DlopenBudget ==
  ASSUME Inv, NEW t \in Threads, Dlopen(t)
  PROVE  Budget'
<1> USE DEF dirVars, dllVars
<1>1. /\ Plain /\ Libs /\ Budget /\ Where /\ work[t] = "dlopen" /\ lib[t] \in Plugins
      /\ UNCHANGED <<file, events, toScan, lib, monitor>>
  BY DEF Dlopen, Inv, Libs
<1>2. PICK p \in Plugins : p = lib[t]
  BY <1>1
<1>3. /\ opens \in [Plugins -> Nat] /\ opens' \in [Plugins -> Nat]
      /\ opens'[p] <= opens[p] + 1 /\ \A q \in Plugins : q # p => opens'[q] = opens[q]
  BY <1>1, <1>2 DEF Dlopen, Plain
<1>4. work'[t] # "dlopen" /\ \A u \in Threads : u # t => work'[u] = work[u]
  BY <1>1 DEF Dlopen, Plain
<1>5. \A q : /\ Pending(q)' <=> Pending(q)
             /\ MainOwes(q)' => MainOwes(q)
             /\ AtMonitor(q)' => AtMonitor(q)
             /\ MonitorOwes(q)' => MonitorOwes(q)
  BY <1>1, <1>4, Names DEF Pending, AtMonitor, MainOwes, MonitorOwes, Loads
<1>6. opens'[p] <= Bound(p)'
  <2>1. opens[p] <= Bound(p) /\ opens[p] \in Nat /\ opens'[p] \in Nat
    BY <1>1, <1>3 DEF Budget
  <2>2. CASE t = "main"
    <3>1. MainOwes(p) /\ ~MainOwes(p)'
      BY <1>1, <1>4, <1>2, <2>2, Names DEF MainOwes, Budget
    <3>2. Bound(p) + 1 <= Bound(p)' /\ Bound(p) \in Nat /\ Bound(p)' \in Nat
      BY <1>5, <3>1 DEF Bound
    <3> QED BY <1>3, <2>1, <3>2
  <2>3. CASE t = "monitor"
    <3>1. AtMonitor(p) /\ monitor = "notify"
      BY <1>1, <1>2, <2>3 DEF AtMonitor, Where
    <3>2. ~AtMonitor(p)' /\ ~Pending(p) /\ file[p] # "absent"
      BY <1>1, <1>4, <2>3, <3>1, Names DEF AtMonitor, Budget
    <3>3. MonitorOwes(p) /\ ~MonitorOwes(p)'
      BY <1>1, <1>5, <3>1, <3>2 DEF MonitorOwes
    <3>4. Bound(p) + 1 <= Bound(p)' /\ Bound(p) \in Nat /\ Bound(p)' \in Nat
      BY <1>5, <3>3 DEF Bound
    <3> QED BY <1>3, <2>1, <3>4
  <2> QED BY <2>2, <2>3, Names
<1>7. \A q \in Plugins : opens'[q] <= Bound(q)'
  BY <1>1, <1>3, <1>5, <1>6, Shrinks
<1>8. \A q \in Plugins :
        /\ Pending(q)' => file'[q] # "absent" /\ ~AtMonitor(q)'
        /\ AtMonitor(q)' => file'[q] # "absent"
        /\ work'["main"] = "dlopen" /\ lib'["main"] = q => q \notin toScan'
  BY <1>1, <1>4, <1>5, Names DEF Budget
<1> QED BY <1>1, <1>7, <1>8 DEF Budget, Loads

LEMMA ReadBudget ==
  ASSUME Inv, Read
  PROVE  Budget'
<1> USE DEF dirVars, dllVars
<1>1. /\ Plain /\ Libs /\ Budget /\ Where /\ monitor = "read" /\ work["monitor"] = "none"
      /\ UNCHANGED <<file, toScan, opens, work>> /\ events # <<>> /\ events' = Tail(events)
      /\ lib'["main"] = lib["main"]
      /\ monitor' = "lock" => Loads(events[1]) /\ lib'["monitor"] = events[1].name
  BY Names DEF Read, Inv, Where, Libs
<1>2. /\ 1 \in DOMAIN events
      /\ \A n \in DOMAIN events' : /\ n + 1 \in DOMAIN events /\ events'[n] = events[n + 1]
                                   /\ n \in Nat \ {0}
  BY <1>1, ReadIs
<1>3. \A q : /\ Pending(q)' => Pending(q)
             /\ AtMonitor(q)' => /\ Loads(events[1]) /\ events[1].name = q /\ Pending(q)
             /\ MainOwes(q)' => MainOwes(q)
  BY <1>1, <1>2 DEF Pending, AtMonitor, MainOwes, Loads
<1>4. \A q : MonitorOwes(q)' => MonitorOwes(q)
  BY <1>1, <1>3 DEF MonitorOwes
<1>5. \A q \in Plugins : opens'[q] <= Bound(q)'
  BY <1>1, <1>3, <1>4, Shrinks
<1>6. ASSUME NEW a \in DOMAIN events', NEW b \in DOMAIN events', Loads(events'[a]),
             Loads(events'[b]), events'[a].name = events'[b].name
      PROVE  a = b
  <2>1. a + 1 = b + 1
    BY <1>1, <1>2, <1>6 DEF Budget
  <2> QED BY <1>2, <2>1
<1>7. \A q : Pending(q)' => ~(Loads(events[1]) /\ events[1].name = q)
  <2> SUFFICES ASSUME NEW n \in DOMAIN events', Loads(events'[n]), Loads(events[1]),
                      events'[n].name = events[1].name
               PROVE  FALSE
    BY DEF Pending, Loads
  <2>1. n + 1 = 1
    BY <1>1, <1>2 DEF Budget
  <2> QED BY <1>2, <2>1
<1>8. \A q \in Plugins :
        /\ Pending(q)' => file'[q] # "absent" /\ ~AtMonitor(q)'
        /\ AtMonitor(q)' => file'[q] # "absent"
        /\ work'["main"] = "dlopen" /\ lib'["main"] = q => q \notin toScan'
  BY <1>1, <1>3, <1>7 DEF Budget
<1> QED BY <1>5, <1>6, <1>8 DEF Budget, Loads

LEMMA ScanBudget ==
  ASSUME Inv, NEW p \in Plugins, Scan(p)
  PROVE  Budget'
<1> USE DEF dirVars, dllVars
<1>1. /\ Plain /\ Libs /\ Budget /\ UNCHANGED <<file, events, opens, monitor>>
      /\ p \in toScan /\ toScan' = toScan \ {p}
      /\ lib'["main"] = p /\ lib'["monitor"] = lib["monitor"] /\ work'["monitor"] = work["monitor"]
  BY Names DEF Scan, Inv, Plain, Libs
<1>2. \A q : /\ Pending(q)' <=> Pending(q)
             /\ AtMonitor(q)' <=> AtMonitor(q)
             /\ MainOwes(q)' => MainOwes(q)
             /\ MonitorOwes(q)' => MonitorOwes(q)
  BY <1>1 DEF Pending, AtMonitor, MainOwes, MonitorOwes, Loads
<1>3. \A q \in Plugins : opens'[q] <= Bound(q)'
  BY <1>1, <1>2, Shrinks
<1> QED BY <1>1, <1>2, <1>3 DEF Budget, Loads

(* An event about exit.txt.                                                *)
LEMMA ExitBudget ==
  ASSUME Inv, Report("IN_ATTRIB", "exit.txt"), UNCHANGED <<file, toScan, opens, lib, work, monitor>>
  PROVE  Budget'
<1>1. Plain /\ Libs /\ Budget
  BY DEF Inv
<1>2. \A n \in DOMAIN events' :
        \/ n \in DOMAIN events /\ events'[n] = events[n]
        \/ n = Len(events) + 1 /\ events'[n] = [mask |-> "IN_ATTRIB", name |-> "exit.txt"]
  BY <1>1, ReportIs DEF Masks
<1>3. \A n \in DOMAIN events' : Loads(events'[n]) => n \in DOMAIN events /\ events'[n] = events[n]
  BY <1>2 DEF Loads
<1>4. \A q : /\ Pending(q)' => Pending(q)
             /\ AtMonitor(q)' <=> AtMonitor(q)
             /\ MainOwes(q)' => MainOwes(q)
  BY <1>3 DEF Pending, AtMonitor, MainOwes, Loads
<1>5. \A q : MonitorOwes(q)' => MonitorOwes(q)
  BY <1>4 DEF MonitorOwes
<1>6. \A q \in Plugins : opens'[q] <= Bound(q)'
  BY <1>1, <1>4, <1>5, Shrinks
<1>7. \A a, b \in DOMAIN events' :
        Loads(events'[a]) /\ Loads(events'[b]) /\ events'[a].name = events'[b].name => a = b
  BY <1>1, <1>3 DEF Budget
<1> QED BY <1>1, <1>4, <1>6, <1>7 DEF Budget, Loads

LEMMA BudgetNext ==
  ASSUME Inv, [Next]_vars
  PROVE  Budget'
<1> USE DEF dirVars, dllVars
<1>1. Plain /\ Libs /\ Budget /\ work \in [Threads -> {"none", "dlopen", "init", "add", "added"}]
  BY DEF Inv, Plain
<1>2. CASE Directory
  <2>1. CASE ForeignExit
    BY <2>1, ExitBudget DEF ForeignExit
  <2> QED BY <1>2, <2>1, ArrivalBudget DEF Directory
<1>3. CASE Touch
  BY <1>3, ExitBudget DEF Touch
<1>4. ASSUME NEW t \in Threads, LoadStep(t) PROVE Budget'
  <2>1. CASE Dlopen(t)
    BY <2>1, DlopenBudget
  <2>2. CASE CallFactory(t) \/ AddBegin(t) \/ AddEnd(t)
    <3>1. /\ UNCHANGED <<file, events, toScan, opens, lib, monitor>>
          /\ \A u \in Threads : work'[u] = work[u] \/ work'[u] # "dlopen"
      BY <1>1, <2>2 DEF CallFactory, AddBegin, AddEnd
    <3> QED BY <1>1, <3>1, BudgetSame, Names
  <2> QED BY <1>4, <2>1, <2>2 DEF LoadStep
<1>5. CASE \/ Getting("main") \/ Getting("monitor") \/ BuildFactory("main") \/ BuildFactory("monitor")
           \/ BuildLoader \/ BuildMonitor \/ (\E T \in Classes : MainGet(T) \/ MainNext(T))
           \/ DMRegister \/ Exit \/ Join \/ DestroyFactory \/ CloseNull \/ UNCHANGED vars
  <2>1. /\ UNCHANGED <<file, events, toScan, opens, lib, work>>
        /\ monitor' = monitor \/ monitor' = "read"
    BY <1>5 DEF Getting, BuildFactory, BuildLoader, BuildMonitor, MainGet, MainNext, DMRegister,
                Exit, Join, DestroyFactory, CloseNull, vars
  <2> QED BY <1>1, <2>1, BudgetSame
<1>6. CASE MainAdd
  <2>1. /\ UNCHANGED <<file, events, toScan, opens, monitor>>
        /\ work'["main"] = "add" /\ work'["monitor"] = work["monitor"]
        /\ lib'["monitor"] = lib["monitor"]
    BY <1>1, <1>6, Names DEF MainAdd, Libs
  <2>2. \A q : /\ Pending(q)' <=> Pending(q)
               /\ AtMonitor(q)' <=> AtMonitor(q)
               /\ MainOwes(q)' => MainOwes(q)
               /\ MonitorOwes(q)' => MonitorOwes(q)
    BY <2>1 DEF Pending, AtMonitor, MainOwes, MonitorOwes, Loads
  <2>3. \A q \in Plugins : opens'[q] <= Bound(q)'
    BY <1>1, <2>1, <2>2, Shrinks
  <2> QED BY <1>1, <2>1, <2>2, <2>3 DEF Budget, Loads
<1>7. CASE DestroyLoader
  <2>1. /\ UNCHANGED <<file, events, toScan, monitor, work, lib>>
        /\ opens' = [p \in Plugins |-> 0]
    BY <1>7 DEF DestroyLoader
  <2>2. \A q : /\ Pending(q)' <=> Pending(q)
               /\ AtMonitor(q)' <=> AtMonitor(q)
    BY <2>1 DEF Pending, AtMonitor, Loads
  <2>3. \A q \in Plugins : opens'[q] <= Bound(q)'
    BY <2>1 DEF Bound
  <2> QED BY <1>1, <2>1, <2>2, <2>3 DEF Budget, Loads
<1>8. CASE Notify \/ Unlock
  <2>1. /\ UNCHANGED <<file, events, toScan, opens, lib>> /\ work'["main"] = work["main"]
        /\ \/ monitor = "lock"
           \/ monitor' = "read" /\ work' = work
    BY <1>1, <1>8, Names DEF Notify, Unlock
  <2> QED BY <1>1, <2>1, BudgetSame
<1> QED BY <1>2, <1>3, <1>4, <1>5, <1>6, <1>7, <1>8, ReadBudget, ScanBudget, Names
     DEF Next, Main, Monitor

-----------------------------------------------------------------------------
(* Exit                                                                    *)

(* After a quiet exit only the destructors and the end of the monitor run. *)
LEMMA ExitingStep ==
  ASSUME Inv, [Next]_vars, QuietExit, Exiting
  PROVE  \/ ForeignExit \/ Touch \/ Join \/ DestroyFactory \/ DestroyLoader \/ CloseNull
         \/ Read \/ UNCHANGED vars
<1>1. /\ monitor \notin {"lock", "notify"}
      /\ \A t \in Threads : work[t] = "none" /\ \A T \in Classes : step[t][T] = "out"
      /\ SingletonInv /\ stage \notin 1 .. 5
  BY StageIs DEF Inv, Quiet
<1>2. \A t \in Threads, T \in Classes : ~InInit(t, T) /\ ~Built(t, T) /\ ~Leave(t, T)
  BY <1>1, StepFacts
<1>3. \A t \in Threads : ~LoadStep(t) /\ ~Getting(t) /\ ~BuildFactory(t)
  BY <1>1, <1>2, Names DEF LoadStep, Dlopen, CallFactory, AddBegin, AddEnd, Getting, BuildFactory
<1>4. \A s : ~Stage(s)
  BY DEF Exiting, Stage
<1>5. /\ ~BuildMonitor /\ ~BuildLoader /\ ~DMRegister /\ ~MainAdd /\ ~Exit
      /\ \A p \in Plugins : ~Scan(p)
      /\ \A T \in Classes : ~MainGet(T) /\ ~MainNext(T)
  BY <1>4 DEF BuildMonitor, BuildLoader, DMRegister, MainAdd, Exit, Scan, MainGet, MainNext
<1>6. ~Notify /\ ~Unlock
  BY <1>1 DEF Notify, Unlock
<1>7. \A p \in Plugins : ~Create(p) /\ ~Write(p) /\ ~MoveIn(p)
  BY DEF Create, Write, MoveIn, Arrives
<1> QED BY <1>3, <1>5, <1>6, <1>7, Names DEF Next, Main, Monitor, Directory

LEMMA StageSteps ==
  ASSUME Inv, [Next]_vars
  PROVE  /\ stage' \in 1 .. 3 => stage \in 1 .. 3
         /\ stage' \notin 1 .. 5 => stage \notin 1 .. 5 \/ Exit
         /\ scanned \subseteq scanned'
<1> USE DEF dirVars, dllVars
<1>1. stage \in -3 .. 5
  BY DEF Inv, Plain
<1>2. CASE \E t \in Threads : LoadStep(t) \/ Getting(t) \/ BuildFactory(t)
  BY <1>2 DEF LoadStep, Dlopen, CallFactory, AddBegin, AddEnd, Getting, BuildFactory
<1>3. CASE \/ Read \/ Notify \/ Unlock \/ BuildMonitor \/ BuildLoader \/ UNCHANGED vars
           \/ (\E p \in Plugins : Scan(p)) \/ (\E T \in Classes : MainGet(T))
           \/ DestroyFactory \/ DestroyLoader \/ Directory
  BY <1>3 DEF Read, Notify, Unlock, BuildMonitor, BuildLoader, vars, Scan, MainGet,
              DestroyFactory, DestroyLoader, Directory, ForeignExit, Create, Write, MoveIn
<1>4. CASE DMRegister \/ MainAdd \/ \E T \in Classes : MainNext(T)
  <2>1. stage \in {1, 2, 3, 4} /\ stage' = stage + 1 /\ scanned' = scanned
    BY <1>4, StageIs DEF DMRegister, MainAdd, MainNext, Advance
  <2> QED BY <2>1
<1>5. CASE Exit \/ Touch \/ CloseNull \/ Join
  BY <1>5, StageIs DEF Exit, Touch, CloseNull, Crashed, Join
<1> QED BY <1>2, <1>3, <1>4, <1>5, Names DEF Next, Main, Monitor

LEMMA QuietNext ==
  ASSUME Inv, [Next]_vars
  PROVE  Quiet'
<1> USE DEF dirVars, dllVars
<1> SUFFICES ASSUME QuietExit, stage' \notin 1 .. 5
             PROVE  /\ monitor' \notin {"lock", "notify"}
                    /\ \A t \in Threads : work'[t] = "none" /\ \A T \in Classes : step'[t][T] = "out"
                    /\ \A n \in DOMAIN events' : ~Loads(events'[n])
  <2>1. Exiting' <=> stage' \notin 1 .. 5
    BY StageIs DEF Exiting
  <2> QED BY <2>1 DEF Quiet, Loads
<1>1. CASE Exiting
  <2>1. /\ monitor \notin {"lock", "notify"}
        /\ \A t \in Threads : work[t] = "none" /\ \A T \in Classes : step[t][T] = "out"
        /\ \A n \in DOMAIN events : ~Loads(events[n])
        /\ Libs
    BY <1>1 DEF Inv, Quiet
  <2>2. CASE ForeignExit \/ Touch
    <3>1. /\ UNCHANGED <<monitor, work, step>> /\ Report("IN_ATTRIB", "exit.txt")
      BY <2>2 DEF ForeignExit, Touch, single
    <3>2. \A n \in DOMAIN events' :
            \/ n \in DOMAIN events /\ events'[n] = events[n]
            \/ n = Len(events) + 1 /\ events'[n] = [mask |-> "IN_ATTRIB", name |-> "exit.txt"]
      BY <2>1, <3>1, ReportIs DEF Masks
    <3>3. \A n \in DOMAIN events' : ~Loads(events'[n])
      BY <2>1, <3>2 DEF Loads
    <3> QED BY <2>1, <3>1, <3>3
  <2>3. CASE Join \/ DestroyFactory \/ DestroyLoader \/ CloseNull \/ UNCHANGED vars
    BY <2>1, <2>3 DEF Join, DestroyFactory, DestroyLoader, CloseNull, Dtor, vars, single
  <2>4. CASE Read
    <3>1. /\ UNCHANGED <<work, step>> /\ events # <<>> /\ events' = Tail(events)
          /\ monitor' = "lock" => Loads(Head(events))
          /\ monitor' # "notify"
      BY <2>4 DEF Read, single
    <3>2. /\ Head(events) = events[1] /\ 1 \in DOMAIN events
          /\ \A n \in DOMAIN events' : n + 1 \in DOMAIN events /\ events'[n] = events[n + 1]
      BY <2>1, <3>1, ReadIs
    <3> QED BY <2>1, <3>1, <3>2
  <2> QED BY <1>1, <2>2, <2>3, <2>4, ExitingStep
<1>2. CASE ~Exiting
  <2>1. Exit
    BY <1>2, StageSteps, StageIs
  <2>2. /\ UNCHANGED <<monitor, work, step, events>> /\ stage = 5 /\ work["main"] = "none"
        /\ events = <<>> /\ monitor \in {"read", "gone"}
    BY <2>1, StageIs DEF Exit, single, Idle
  <2>3. work["monitor"] = "none" /\ \A t \in Threads, T \in Classes : step[t][T] = "out"
    BY <2>2, Names DEF Inv, Where
  <2>4. DOMAIN events' = {}
    BY <2>2
  <2> QED BY <2>2, <2>3, <2>4, Names
<1> QED BY <1>1, <1>2

(* The Factory has no object while nobody has asked for it.                *)
LEMMA FactoryAt ==
  ASSUME SingletonInv, \A t \in Threads : step[t]["Factory"] = "out"
  PROVE  /\ m_instance["Factory"] = 0 => ~Registered("Factory")
         /\ m_instance["Factory"] = 1 => Registered("Factory")
<1>1. ClassInv("Factory") /\ m_mutex["Factory"] \in Threads \cup {"free"}
  BY Names DEF SingletonInv, SingletonTypeOK
<1>2. m_mutex["Factory"] = "free"
  BY <1>1 DEF ClassInv, Holding
<1> QED BY <1>1, <1>2 DEF ClassInv, Fresh, Ready

(* DLLLoader stays before the Factory in the list of atexit.               *)
LEMMA AtexitNext ==
  ASSUME Inv, [Next]_vars, scanned' = {}
  PROVE  \A m, n \in DOMAIN atexit' : atexit'[m] = "DLLLoader" /\ atexit'[n] = "Factory" => m < n
<1> USE DEF dirVars, dllVars
<1>1. /\ SingletonInv /\ Where /\ atexit \in Seq(Classes) /\ scanned = {}
      /\ stage \in 1 .. 3 => /\ m_instance["Factory"] = 0
                             /\ \A t \in Threads : step[t]["Factory"] = "out"
      /\ \A m, n \in DOMAIN atexit : atexit[m] = "DLLLoader" /\ atexit[n] = "Factory" => m < n
  BY StageSteps DEF Inv, SingletonInv, SingletonTypeOK, LoaderFirst
<1>2. CASE atexit' = atexit
  BY <1>1, <1>2
<1>3. ASSUME NEW t \in Threads, NEW T \in Classes, InInit(t, T)
      PROVE  \A m, n \in DOMAIN atexit' : atexit'[m] = "DLLLoader" /\ atexit'[n] = "Factory" => m < n
  <2>1. step[t][T] # "out" /\ (atexit' = atexit \/ atexit' = Append(atexit, T))
    BY <1>1, <1>3, StepFacts
  <2>2. CASE atexit' = Append(atexit, T)
    <3>1. /\ DOMAIN atexit = 1 .. Len(atexit) /\ Len(atexit) \in Nat
          /\ \A n \in DOMAIN atexit' : \/ n \in DOMAIN atexit /\ atexit'[n] = atexit[n]
                                       \/ n = Len(atexit) + 1 /\ atexit'[n] = T
      BY <1>1, <2>2
    <3>2. CASE T # "DLLLoader"
      BY <1>1, <3>1, <3>2
    <3>3. CASE T = "DLLLoader"
      <4>1. stage = 2
        BY <1>1, <2>1, <3>3, Names DEF Where
      <4>2. ~Registered("Factory")
        BY <1>1, <4>1, FactoryAt
      <4>3. \A n \in DOMAIN atexit' : atexit'[n] # "Factory"
        BY <3>1, <3>3, <4>2 DEF Registered
      <4> QED BY <4>3
    <3> QED BY <3>2, <3>3
  <2> QED BY <1>2, <2>1, <2>2
<1>4. CASE DestroyFactory \/ DestroyLoader \/ Join
  <2>1. PICK T : Dtor(T)
    BY <1>4 DEF DestroyFactory, DestroyLoader, Join
  <2>2. \A n \in DOMAIN atexit' : n \in DOMAIN atexit /\ atexit'[n] = atexit[n]
    BY <1>1, <2>1, DtorInv
  <2> QED BY <1>1, <2>2
<1>5. ASSUME NEW t \in Threads, LoadStep(t) \/ BuildFactory(t) PROVE atexit' = atexit
  BY <1>5 DEF LoadStep, Dlopen, CallFactory, AddBegin, AddEnd, BuildFactory, GetInstance, Leave,
              Built, single
<1>6. CASE \/ Read \/ Notify \/ Unlock \/ BuildMonitor \/ BuildLoader \/ UNCHANGED vars
           \/ (\E p \in Plugins : Scan(p)) \/ (\E T \in Classes : MainGet(T) \/ MainNext(T))
           \/ DMRegister \/ MainAdd \/ Exit \/ Touch \/ CloseNull \/ Directory
  <2>1. atexit' = atexit
    BY <1>6 DEF Read, Notify, Unlock, BuildMonitor, BuildLoader, vars, Scan, MainGet, MainNext,
                DMRegister, MainAdd, Exit, Touch, CloseNull, Directory, ForeignExit, Create, Write, MoveIn,
                GetInstance, Leave, Built, single
  <2> QED BY <1>2, <2>1
<1> QED BY <1>2, <1>3, <1>4, <1>5, <1>6, Names DEF Next, Main, Monitor, Getting

(* Before the callback is registered nobody asks for the Factory, unless   *)
(* the scan has loaded something.                                          *)
LEMMA NotAskedNext ==
  ASSUME Inv, [Next]_vars, scanned' = {}, stage' \in 1 .. 3
  PROVE  /\ m_instance'["Factory"] = 0 /\ work'["main"] = "none"
         /\ \A t \in Threads : step'[t]["Factory"] = "out"
<1> USE DEF dirVars, dllVars
<1>1. /\ SingletonInv /\ Where /\ scanned = {} /\ stage \in 1 .. 3
      /\ m_instance["Factory"] = 0
      /\ \A t \in Threads : step[t]["Factory"] = "out" /\ work[t] = "none"
      /\ work \in [Threads -> {"none", "dlopen", "init", "add", "added"}]
  <2>1. scanned = {} /\ stage \in 1 .. 3
    BY StageSteps
  <2> QED BY <2>1, Names DEF Inv, LoaderFirst, Where, Plain
<1>2. \A t \in Threads : ~LoadStep(t) /\ ~BuildFactory(t)
  BY <1>1, StepFacts, Names
   DEF LoadStep, Dlopen, CallFactory, AddBegin, AddEnd, BuildFactory
<1>3. ASSUME NEW t \in Threads, NEW T \in Classes, T # "Factory", work' = work,
             GetInstance(t, T) \/ InInit(t, T) \/ Built(t, T) \/ Leave(t, T)
      PROVE  /\ m_instance'["Factory"] = 0 /\ work'["main"] = "none"
             /\ \A u \in Threads : step'[u]["Factory"] = "out"
  BY <1>1, <1>3, Others, Names
<1>4. ASSUME NEW t \in Threads, Getting(t)
      PROVE  \E T \in Classes : T # "Factory" /\ InInit(t, T) /\ work' = work
  BY <1>1, <1>4, StepFacts, Names DEF Getting
<1>5. ASSUME NEW T \in Classes, MainGet(T) \/ MainNext(T)
      PROVE  T # "Factory" /\ work' = work /\ (GetInstance("main", T) \/ Leave("main", T))
  BY <1>1, <1>5, StageIs DEF MainGet, MainNext
<1>6. CASE BuildMonitor \/ BuildLoader
  BY <1>3, <1>6, Names DEF BuildMonitor, BuildLoader
<1>7. ASSUME NEW p \in Plugins, Scan(p)
      PROVE  work'["main"] = "none" /\ UNCHANGED single
  BY <1>1, <1>7, Names DEF Scan
<1>8. CASE \/ Read \/ Notify \/ Unlock \/ UNCHANGED vars \/ DMRegister \/ Directory
  <2>1. UNCHANGED single /\ work'["main"] = work["main"]
    BY <1>1, <1>8, Names
     DEF Read, Notify, Unlock, vars, DMRegister, Directory, ForeignExit, Create, Write, MoveIn
  <2> QED BY <1>1, <2>1, Names DEF single
<1>9. ~MainAdd /\ ~Exit /\ ~Touch /\ ~CloseNull /\ ~Join /\ ~DestroyFactory /\ ~DestroyLoader
  BY <1>1, StageIs DEF MainAdd, Exit, Touch, CloseNull, Join, DestroyFactory, DestroyLoader
<1>10. CASE \E t \in Threads : Getting(t)
  BY <1>3, <1>4, <1>10
<1>11. CASE \E T \in Classes : MainGet(T) \/ MainNext(T)
  BY <1>3, <1>5, <1>11, Names
<1>12. CASE \E p \in Plugins : Scan(p)
  BY <1>1, <1>7, <1>12 DEF single
<1> QED BY <1>2, <1>6, <1>8, <1>9, <1>10, <1>11, <1>12, Names DEF Next, Main, Monitor

LEMMA UnloadingNext ==
  ASSUME Inv, [Next]_vars
  PROVE  Unloading'
<1> USE DEF dirVars, dllVars
<1> SUFFICES ASSUME QuietExit
             PROVE  /\ "Factory" \in destroyed' => m_map' = {}
                    /\ "DLLLoader" \in destroyed' /\ scanned' = {} => "Factory" \in destroyed'
  BY DEF Unloading
<1>1. /\ SingletonInv /\ Where /\ Unloading /\ Quiet
  BY DEF Inv
<1>2. CASE DestroyFactory
  <2>1. m_map' = {} /\ "Factory" \in destroyed'
    BY <1>2 DEF DestroyFactory, Dtor
  <2> QED BY <2>1
<1>3. CASE DestroyLoader
  <2>1. /\ Dtor("DLLLoader") /\ m_map' = m_map /\ scanned' = scanned /\ stage = 0
        /\ destroyed' = destroyed \cup {"DLLLoader"}
    BY <1>3 DEF DestroyLoader, Dtor
  <2>2. ASSUME scanned = {} PROVE "Factory" \in destroyed
    <3>1. \A t \in Threads : step[t]["Factory"] = "out"
      BY <1>1, <2>1, StageIs, Names DEF Quiet
    <3>2. m_instance["Factory"] = 1
      BY <1>1, <2>1 DEF Where
    <3>3. Registered("Factory")
      BY <1>1, <3>1, <3>2, FactoryAt
    <3>4. /\ Len(atexit) \in DOMAIN atexit /\ atexit[Len(atexit)] = "DLLLoader"
      BY <1>1, <2>1, DtorInv
    <3>5. \A n \in DOMAIN atexit : atexit[n] = "Factory" => Len(atexit) < n
      BY <2>2, <3>4 DEF Inv, LoaderFirst
    <3>6. \A n \in DOMAIN atexit : ~(Len(atexit) < n)
      BY <1>1 DEF SingletonInv, SingletonTypeOK
    <3> QED BY <3>3, <3>5, <3>6 DEF Registered
  <2>3. "Factory" \in destroyed' => "Factory" \in destroyed
    BY <2>1
  <2> QED BY <1>1, <2>1, <2>2, <2>3 DEF Unloading
<1>4. CASE Join
  <2>1. /\ m_map' = m_map /\ scanned' = scanned
        /\ destroyed' = destroyed \cup {"DirMonitor"}
    BY <1>4 DEF Join, Dtor
  <2> QED BY <1>1, <2>1 DEF Unloading
<1>5. CASE ~DestroyFactory /\ ~DestroyLoader /\ ~Join
  <2>1. destroyed' = destroyed
    <3>1. \A t \in Threads, T \in Classes :
            GetInstance(t, T) \/ InInit(t, T) \/ Built(t, T) \/ Leave(t, T) => destroyed' = destroyed
      BY <1>1, Others
    <3>2. CASE \E t \in Threads : LoadStep(t) \/ Getting(t) \/ BuildFactory(t)
      BY <3>1, <3>2, Names
       DEF LoadStep, Dlopen, CallFactory, AddBegin, AddEnd, Getting, BuildFactory, single
    <3>3. CASE \E T \in Classes : MainGet(T) \/ MainNext(T)
      BY <3>1, <3>3, Names DEF MainGet, MainNext
    <3>4. CASE BuildMonitor \/ BuildLoader
      BY <3>1, <3>4, Names DEF BuildMonitor, BuildLoader
    <3>5. CASE \/ Read \/ Notify \/ Unlock \/ UNCHANGED vars
               \/ (\E p \in Plugins : Scan(p)) \/ DMRegister \/ MainAdd \/ Exit \/ Touch
               \/ CloseNull \/ Directory
      BY <3>5 DEF Read, Notify, Unlock, vars, Scan, DMRegister, MainAdd, Exit, Touch, CloseNull, Directory,
                  ForeignExit, Create, Write, MoveIn, single
    <3> QED BY <1>5, <3>2, <3>3, <3>4, <3>5, Names DEF Next, Main, Monitor
  <2>2. CASE destroyed = {}
    BY <2>1, <2>2
  <2>3. CASE destroyed # {}
    <3>1. Exiting
      BY <1>1, <2>3, StageIs DEF Where
    <3>2. m_map' = m_map /\ scanned' = scanned
      BY <1>5, <3>1, ExitingStep DEF ForeignExit, Touch, CloseNull, Read, vars
    <3> QED BY <1>1, <2>1, <3>2 DEF Unloading
  <2> QED BY <2>2, <2>3
<1> QED BY <1>2, <1>3, <1>4, <1>5

-----------------------------------------------------------------------------
(* The results                                                             *)

LEMMA InitInv == Init => Inv
<1> SUFFICES ASSUME Init PROVE Inv
  OBVIOUS
<1> USE FreeIsNoThread
<1>1. /\ atexit = <<>> /\ destroyed = {} /\ DOMAIN atexit = {} /\ atexit \in Seq(Classes)
      /\ events = <<>> /\ DOMAIN events = {} /\ events \in Seq(Events)
  BY DEF Init, SingletonInit
<1>2. SingletonTypeOK
  BY <1>1 DEF Init, SingletonInit, SingletonTypeOK, Steps
<1>3. ASSUME NEW T \in Classes PROVE ClassInv(T)
  <2>1. ~Registered(T)
    BY <1>1 DEF Registered
  <2>2. Fresh(T)
    BY <2>1 DEF Init, SingletonInit, Fresh
  <2>3. m_mutex[T] = "free" /\ \A t \in Threads : step[t][T] = "out"
    BY DEF Init, SingletonInit
  <2> QED BY <2>2, <2>3 DEF ClassInv, At, Holding
<1>4. Plain
  <2>1. stage \in -3 .. 5
    BY <1>1 DEF Init
  <2>2. /\ file \in [Plugins -> {"absent", "partial", "whole"}]
        /\ work \in [Threads -> {"none", "dlopen", "init", "add", "added"}]
        /\ opens \in [Plugins -> Nat]
    BY DEF Init
  <2> QED BY <2>1, <2>2 DEF Init, Plain
<1>5. Libs
  BY <1>1 DEF Init, Libs
<1>6. stage = 1 /\ scanned = {}
      /\ \A t \in Threads : work[t] = "none" /\ \A T \in Classes : step[t][T] = "out"
  BY DEF Init, SingletonInit
<1>7. Where
  BY <1>1, <1>6, Names DEF Init, Where
<1>8. Budget
  <2>1. \A p \in Plugins : opens[p] <= Bound(p)
    BY DEF Init, Bound
  <2>2. \A p \in Plugins : ~Pending(p) /\ ~AtMonitor(p)
    BY <1>1, <1>6, Names DEF Init, Pending, AtMonitor
  <2> QED BY <1>1, <1>6, <2>1, <2>2, Names DEF Budget
<1>9. Quiet
  BY <1>6, StageIs DEF Quiet
<1>10. LoaderFirst /\ Unloading
  BY <1>1, <1>6, Names DEF Init, SingletonInit, LoaderFirst, Unloading
<1> QED BY <1>2, <1>3, <1>4, <1>5, <1>7, <1>8, <1>9, <1>10 DEF Inv, SingletonInv

LEMMA NextInv == Inv /\ [Next]_vars => Inv'
<1> SUFFICES ASSUME Inv, [Next]_vars PROVE Inv'
  OBVIOUS
<1>1. SingletonInv'
  BY SingletonNext DEF Inv
<1>2. Plain' /\ Libs' /\ Where' /\ Budget' /\ Quiet' /\ Unloading'
  BY PlainNext, WhereNext, BudgetNext, QuietNext, UnloadingNext
<1>3. LoaderFirst'
  BY AtexitNext, NotAskedNext DEF LoaderFirst
<1> QED BY <1>1, <1>2, <1>3 DEF Inv

(* For any set of plugins, whatever the two threads and the directory do,  *)
(* the types hold, and no plugin is opened more than twice: by the scan    *)
(* and for the event of its arrival (DLLLoader::Load, Monitor).            *)
THEOREM FrameworkTypeTheorem == Spec => []TypeOK
<1>1. Inv => TypeOK
  <2> SUFFICES ASSUME Inv PROVE TypeOK
    OBVIOUS
  <2>1. \A p \in Plugins : opens[p] \in 0 .. 2
    <3> SUFFICES ASSUME NEW p \in Plugins PROVE opens[p] \in 0 .. 2
      OBVIOUS
    <3>1. opens[p] \in Nat /\ opens[p] <= Bound(p)
      BY DEF Inv, Plain, Budget
    <3>2. Bound(p) \in 0 .. 2
      BY DEF Bound
    <3> QED BY <3>1, <3>2
  <2>2. opens \in [Plugins -> 0 .. 2]
    BY <2>1 DEF Inv, Plain
  <2>3. Plain /\ SingletonTypeOK
    BY DEF Inv, SingletonInv
  <2> QED BY <2>2, <2>3, StageIs DEF Plain, TypeOK, Crashed
<1> QED BY <1>1, InitInv, NextInv, PTL DEF Spec

(* However the two threads meet in GetInstance, and however the process    *)
(* exits, no second object of a class is created (Init).                   *)
THEOREM OneObjectTheorem == Spec => [](\A T \in Classes : created[T] <= 1)
<1>1. Inv => \A T \in Classes : created[T] <= 1
  <2> SUFFICES ASSUME Inv, NEW T \in Classes PROVE created[T] <= 1
    OBVIOUS
  <2>1. ClassInv(T) /\ m_mutex[T] \in Threads \cup {"free"}
    BY DEF Inv, SingletonInv, SingletonTypeOK
  <2>2. created[T] = 0 \/ created[T] = 1
    <3>1. CASE m_mutex[T] = "free"
      BY <2>1, <3>1 DEF ClassInv, Fresh, Ready
    <3>2. CASE m_mutex[T] \in Threads
      <4>1. step[m_mutex[T]][T] \in Holding
        BY <2>1, <3>2 DEF ClassInv
      <4> QED BY <2>1, <3>2, <4>1 DEF ClassInv, Holding, At, Fresh, Made, Stored, Flagged
    <3> QED BY <2>1, <3>1, <3>2
  <2> QED BY <2>2
<1> QED BY <1>1, InitInv, NextInv, PTL DEF Spec

(* The class invariant carries the rest: who holds what GetInstance        *)
(* returned holds the first object, and nothing is destroyed while he      *)
(* does, provided that exit begins when the monitor is idle and no plugin  *)
(* arrives any more.  (Otherwise exit destroys the Factory under the       *)
(* monitor's AddCtor.)                                                     *)
THEOREM OneInstanceTheorem == Spec => [](QuietExit => OneInstance)
<1>1. Inv /\ (\A T \in Classes : created[T] <= 1) => (QuietExit => OneInstance)
  <2> SUFFICES ASSUME Inv, QuietExit, \A T \in Classes : created[T] <= 1 PROVE OneInstance
    OBVIOUS
  <2>1. ASSUME NEW t \in Threads, NEW T \in Classes, At(t, T, "has")
        PROVE  got[t][T] = 1 /\ T \notin destroyed
    <3>1. got[t][T] = 1
      BY <2>1 DEF Inv, SingletonInv, ClassInv
    <3>2. ~Exiting
      BY <2>1 DEF Inv, Quiet, At
    <3>3. destroyed = {}
      BY <3>2, StageIs DEF Inv, Where
    <3> QED BY <3>1, <3>3
  <2> QED BY <2>1 DEF OneInstance
<1> QED BY <1>1, OneObjectTheorem, InitInv, NextInv, PTL DEF Spec

(* Under the same condition ~Factory empties the map before ~DLLLoader     *)
(* unmaps the code of the creators in it, for any set of plugins, unless   *)
(* the scan has loaded one.                                                *)
THEOREM CodeTheorem == Spec => [](QuietExit => CodeOutlivesCreators)
<1>1. Inv => (QuietExit => CodeOutlivesCreators)
  BY DEF Inv, Unloading, CodeOutlivesCreators
<1> QED BY <1>1, InitInv, NextInv, PTL DEF Spec
=============================================================================
