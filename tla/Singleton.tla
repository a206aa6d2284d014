----------------------------- MODULE Singleton ------------------------------
(***************************************************************************)
(* Singleton<T> (singleton.hpp) for a set of classes: GetInstance reads a  *)
(* plain flag, Init tests m_instance before and after it takes the mutex,  *)
(* and the destructors run at exit in the reverse order of the atexit      *)
(* calls.  What a constructor does is left to the module that uses this    *)
(* one; a thread may call GetInstance of another class inside it.          *)
(*                                                                         *)
(* Stores and loads of one thread take effect in program order, as they do *)
(* on x86 in the unoptimised build of the Makefile.                        *)
(***************************************************************************)
EXTENDS Integers, Sequences

CONSTANTS Threads, Classes

VARIABLES
  m_instance,     \* per class: number of the object, 0 for null
  m_supply_flag,  \* per class
  m_mutex,        \* per class: the thread that holds it, or "free"
  created,        \* per class: objects created so far
  atexit,         \* classes whose Dtor is registered, oldest first
  destroyed,      \* classes whose Dtor has run
  step, got       \* per thread and class: where GetInstance is, what it returned

single == <<m_instance, m_supply_flag, m_mutex, created, atexit, destroyed, step, got>>

Steps == {"out", "load", "lock", "build", "store", "flag", "atexit", "has"}

SingletonInit ==
  /\ m_instance = [T \in Classes |-> 0]
  /\ m_supply_flag = [T \in Classes |-> FALSE]
  /\ m_mutex = [T \in Classes |-> "free"]
  /\ created = [T \in Classes |-> 0]
  /\ atexit = <<>> /\ destroyed = {}
  /\ step = [t \in Threads |-> [T \in Classes |-> "out"]]
  /\ got = [t \in Threads |-> [T \in Classes |-> 0]]

SingletonTypeOK ==
  /\ m_instance \in [Classes -> Nat] /\ created \in [Classes -> Nat]
  /\ m_supply_flag \in [Classes -> BOOLEAN]
  /\ m_mutex \in [Classes -> Threads \cup {"free"}]
  /\ atexit \in Seq(Classes) /\ destroyed \subseteq Classes
  /\ step \in [Threads -> [Classes -> Steps]]
  /\ got \in [Threads -> [Classes -> Nat]]

At(t, T, s)   == step[t][T] = s
Goto(t, T, s) == step' = [step EXCEPT ![t][T] = s] /\ UNCHANGED got

Return(t, T) == /\ step' = [step EXCEPT ![t][T] = "has"]
                /\ got' = [got EXCEPT ![t][T] = m_instance[T]]

(* GetInstance: m_supply_flag, read without the mutex, and Supply.         *)
GetInstance(t, T) ==
  /\ At(t, T, "out")
  /\ IF m_supply_flag[T] THEN Return(t, T) ELSE Goto(t, T, "load")
  /\ UNCHANGED <<m_instance, m_supply_flag, m_mutex, created, atexit, destroyed>>

(* Init: the first test of m_instance.                                     *)
Load(t, T) ==
  /\ At(t, T, "load")
  /\ IF m_instance[T] # 0 THEN Return(t, T) ELSE Goto(t, T, "lock")
  /\ UNCHANGED <<m_instance, m_supply_flag, m_mutex, created, atexit, destroyed>>

(* Mutant of Lock: m_instance is not tested again.                         *)
LockNoTest(t, T) ==
  /\ At(t, T, "lock") /\ m_mutex[T] = "free"
  /\ m_mutex' = [m_mutex EXCEPT ![T] = t]
  /\ Goto(t, T, "build")
  /\ UNCHANGED <<m_instance, m_supply_flag, created, atexit, destroyed>>

(* The mutex and the second test.                                          *)
Lock(t, T) ==
  /\ At(t, T, "lock") /\ m_mutex[T] = "free"
  /\ IF m_instance[T] # 0
     THEN Return(t, T) /\ UNCHANGED m_mutex
     ELSE Goto(t, T, "build") /\ m_mutex' = [m_mutex EXCEPT ![T] = t]
  /\ UNCHANGED <<m_instance, m_supply_flag, created, atexit, destroyed>>

(* The constructor returns.                                                *)
Built(t, T) ==
  /\ At(t, T, "build")
  /\ created' = [created EXCEPT ![T] = @ + 1]
  /\ Goto(t, T, "store")
  /\ UNCHANGED <<m_instance, m_supply_flag, m_mutex, atexit, destroyed>>

Store(t, T) ==
  /\ At(t, T, "store")
  /\ m_instance' = [m_instance EXCEPT ![T] = created[T]]
  /\ Goto(t, T, "flag")
  /\ UNCHANGED <<m_supply_flag, m_mutex, created, atexit, destroyed>>

SetFlag(t, T) ==
  /\ At(t, T, "flag")
  /\ m_supply_flag' = [m_supply_flag EXCEPT ![T] = TRUE]
  /\ Goto(t, T, "atexit")
  /\ UNCHANGED <<m_instance, m_mutex, created, atexit, destroyed>>

(* std::atexit(Dtor) and the unlock.                                       *)
Atexit(t, T) ==
  /\ At(t, T, "atexit")
  /\ atexit' = Append(atexit, T)
  /\ m_mutex' = [m_mutex EXCEPT ![T] = "free"]
  /\ Return(t, T)
  /\ UNCHANGED <<m_instance, m_supply_flag, created, destroyed>>

(* The steps that need nothing from the constructor.                       *)
InInit(t, T) == Load(t, T) \/ Lock(t, T) \/ Store(t, T) \/ SetFlag(t, T) \/ Atexit(t, T)

(* The caller has finished with what GetInstance returned.                 *)
Leave(t, T) ==
  /\ At(t, T, "has")
  /\ Goto(t, T, "out")
  /\ UNCHANGED <<m_instance, m_supply_flag, m_mutex, created, atexit, destroyed>>

(* exit calls the handler that was registered last.                        *)
Dtor(T) ==
  /\ atexit # <<>> /\ T = atexit[Len(atexit)]
  /\ atexit' = SubSeq(atexit, 1, Len(atexit) - 1)
  /\ destroyed' = destroyed \cup {T}
  /\ UNCHANGED <<m_instance, m_supply_flag, m_mutex, created, step, got>>

(* However threads meet in GetInstance, at most one object of a class is   *)
(* created, and who has called GetInstance holds that object, constructed  *)
(* and not yet destroyed (Init, Supply, Dtor).                             *)
OneInstance ==
  /\ \A T \in Classes : created[T] <= 1
  /\ \A t \in Threads, T \in Classes :
       At(t, T, "has") => got[t][T] = 1 /\ T \notin destroyed
=============================================================================
