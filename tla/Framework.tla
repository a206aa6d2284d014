----------------------------- MODULE Framework ------------------------------
(***************************************************************************)
(* Start, plugins and exit of a process: the constructor of Framework, the *)
(* thread of DirMonitor with its Dispatcher, DLLLoader, and the Factory    *)
(* that commands are registered with, all of them singletons.              *)
(*                                                                         *)
(* main goes through Order.  Loading a plugin runs its initialiser, which  *)
(* registers a creator with the Factory (external: that is what a command  *)
(* plugin is for).  Both threads load: main while DLLLoader is constructed,*)
(* the monitor on inotify events.                                          *)
(***************************************************************************)
EXTENDS Singleton, FiniteSets

CONSTANTS Plugins,      \* files in the plugin directory
          QuietExit     \* does exit begin, and go on, without plugins arriving?

ASSUME FrameworkAssumption ==
  /\ Threads = {"main", "monitor"}
  /\ Classes = {"DirMonitor", "DLLLoader", "Factory"}
  /\ QuietExit \in BOOLEAN

VARIABLES
  file,         \* per plugin: "absent", "partial", "whole"
  events,       \* inotify events not yet read
  stage,        \* main: position in Order, 0 or less when the process exits
  toScan,       \* entries the directory iterator still has to visit
  registered,   \* is the callback in the dispatcher's list?
  dm_mutex,     \* m_mutex of DirMonitor
  monitor,      \* the monitor thread: "none", "read", "lock", "notify", "gone"
  work, lib,    \* per thread: the step of Load it is in, its plugin
  copy,         \* per thread: the map as AddCtor found it
  opens,        \* per plugin: handles in m_dll_list
  nulls,        \* is NULL in m_dll_list?
  m_map,        \* keys of the Factory
  foreign,      \* has another process touched exit.txt?
  scanned,      \* ghost: plugins loaded by the scan
  due           \* ghost: plugins that have to be loaded

dirVars == <<file, events, foreign>>
dllVars == <<work, lib, copy, opens, nulls, m_map>>
vars == <<single, dirVars, dllVars, stage, toScan, registered, dm_mutex, monitor, scanned, due>>

(* Mutant of Order: the commands are registered first.                     *)
OrderFactoryFirst == <<"DirMonitor", "Factory", "DLLLoader", "register", "run">>

(* Framework::Framework: m_dirmonitor, DLLLoader, DMRegister, AddCtor, and *)
(* then Run.                                                               *)
Order == <<"DirMonitor", "DLLLoader", "register", "Factory", "run">>

Stage(s) == stage \in DOMAIN Order /\ Order[stage] = s
Exiting  == stage \notin DOMAIN Order

Init ==
  /\ SingletonInit
  /\ file \in [Plugins -> {"absent", "whole"}] /\ events = <<>> /\ foreign = FALSE
  /\ stage = 1 /\ toScan = Plugins /\ registered = FALSE
  /\ dm_mutex = "free" /\ monitor = "none"
  /\ work = [t \in Threads |-> "none"]
  /\ lib = [t \in Threads |-> "none"]
  /\ copy = [t \in Threads |-> {}]
  /\ opens = [p \in Plugins |-> 0] /\ nulls = FALSE /\ m_map = {}
  /\ scanned = {} /\ due = {}

-----------------------------------------------------------------------------
(* The plugin directory                                                    *)

Watched == monitor # "none"

Report(mask, name) ==
  events' = IF Watched THEN Append(events, [mask |-> mask, name |-> name]) ELSE events

Arrives == ~(QuietExit /\ Exiting)

(* A plugin is created empty and then written.                             *)
Create(p) ==
  /\ file[p] = "absent" /\ Arrives
  /\ file' = [file EXCEPT ![p] = "partial"]
  /\ Report("IN_CREATE", p)
  /\ UNCHANGED <<single, dllVars, stage, toScan, registered, dm_mutex, monitor, foreign, scanned, due>>

Write(p) ==
  /\ file[p] = "partial" /\ Arrives
  /\ file' = [file EXCEPT ![p] = "whole"]
  /\ Report("IN_MODIFY", p)
  /\ UNCHANGED <<single, dllVars, stage, toScan, registered, dm_mutex, monitor, foreign, scanned, due>>

(* A plugin is moved in, complete.                                         *)
MoveIn(p) ==
  /\ file[p] = "absent" /\ Arrives
  /\ file' = [file EXCEPT ![p] = "whole"]
  /\ Report("IN_MOVED_TO", p)
  /\ due' = due \cup {x \in {p} : registered}
  /\ UNCHANGED <<single, dllVars, stage, toScan, registered, dm_mutex, monitor, foreign, scanned>>

(* ~DirMonitor of another process that has the same plugin directory.      *)
ForeignExit ==
  /\ ~foreign /\ Watched
  /\ foreign' = TRUE
  /\ Report("IN_ATTRIB", "exit.txt")
  /\ UNCHANGED <<single, dllVars, file, stage, toScan, registered, dm_mutex, monitor, scanned, due>>

-----------------------------------------------------------------------------
(* DLLLoader::Load in thread t                                             *)

(* dlopen; the initialiser runs if the library is not loaded yet.  What    *)
(* dlopen returns goes to the list, NULL too.                              *)
Dlopen(t) ==
  /\ work[t] = "dlopen"
  /\ opens' = [opens EXCEPT ![lib[t]] = IF file[lib[t]] = "whole" THEN @ + 1 ELSE @]
  /\ nulls' = (nulls \/ file[lib[t]] # "whole")
  /\ work' = [work EXCEPT ![t] = IF file[lib[t]] = "whole" /\ opens[lib[t]] = 0
                                 THEN "init" ELSE "none"]
  /\ UNCHANGED <<single, dirVars, lib, copy, m_map, stage, toScan, registered, dm_mutex,
                 monitor, scanned, due>>

(* The initialiser of the plugin calls GetInstance of the Factory ...      *)
CallFactory(t) ==
  /\ work[t] = "init"
  /\ GetInstance(t, "Factory")
  /\ work' = [work EXCEPT ![t] = "add"]
  /\ UNCHANGED <<dirVars, lib, copy, opens, nulls, m_map, stage, toScan, registered, dm_mutex,
                 monitor, scanned, due>>

(* ... and AddCtor, which changes the map without a lock: of two threads   *)
(* at a time one may undo what the other does.                             *)
AddBegin(t) ==
  /\ work[t] = "add" /\ At(t, "Factory", "has")
  /\ copy' = [copy EXCEPT ![t] = m_map]
  /\ work' = [work EXCEPT ![t] = "added"]
  /\ UNCHANGED <<single, dirVars, lib, opens, nulls, m_map, stage, toScan, registered, dm_mutex,
                 monitor, scanned, due>>

AddEnd(t) ==
  /\ work[t] = "added"
  /\ m_map' = copy[t] \cup {lib[t]}
  /\ copy' = [copy EXCEPT ![t] = {}]
  /\ work' = [work EXCEPT ![t] = "none"]
  /\ Leave(t, "Factory")
  /\ UNCHANGED <<dirVars, lib, opens, nulls, stage, toScan, registered, dm_mutex, monitor, scanned, due>>

LoadStep(t) == Dlopen(t) \/ CallFactory(t) \/ AddBegin(t) \/ AddEnd(t)

-----------------------------------------------------------------------------
(* main                                                                    *)

Advance == stage' = stage + 1

Idle(t) == work[t] = "none"

(* GetInstance of the class whose turn it is.                              *)
MainGet(T) ==
  /\ Stage(T) /\ Idle("main")
  /\ GetInstance("main", T)
  /\ UNCHANGED <<dirVars, dllVars, stage, toScan, registered, dm_mutex, monitor, scanned, due>>

(* DirMonitor::DirMonitor: the watch and the thread.                       *)
BuildMonitor ==
  /\ Stage("DirMonitor") /\ Built("main", "DirMonitor")
  /\ monitor' = "read"
  /\ UNCHANGED <<dirVars, dllVars, stage, toScan, registered, dm_mutex, scanned, due>>

(* DLLLoader::DLLLoader visits the directory, in any order.  (Its          *)
(* GetInstance of DirMonitor finds the flag set by the same thread.)       *)
Scan(p) ==
  /\ Stage("DLLLoader") /\ At("main", "DLLLoader", "build") /\ Idle("main")
  /\ p \in toScan
  /\ toScan' = toScan \ {p}
  /\ lib' = [lib EXCEPT !["main"] = p]
  /\ work' = [work EXCEPT !["main"] = IF file[p] = "absent" THEN "none" ELSE "dlopen"]
  /\ scanned' = scanned \cup {x \in {p} : file[p] # "absent"}
  /\ due' = due \cup {x \in {p} : file[p] = "whole"}
  /\ UNCHANGED <<single, dirVars, copy, opens, nulls, m_map, stage, registered, dm_mutex, monitor>>

BuildLoader ==
  /\ Stage("DLLLoader") /\ toScan = {} /\ Idle("main")
  /\ Built("main", "DLLLoader")
  /\ UNCHANGED <<dirVars, dllVars, stage, toScan, registered, dm_mutex, monitor, scanned, due>>

(* Both GetInstance calls return and the constructor goes on.              *)
MainNext(T) ==
  /\ Stage(T) /\ T \in {"DirMonitor", "DLLLoader"}
  /\ Leave("main", T)
  /\ Advance
  /\ UNCHANGED <<dirVars, dllVars, toScan, registered, dm_mutex, monitor, scanned, due>>

(* Dispatcher::Register, and Unregister in ~ACallback, of the one callback. *)
Register   == registered' = TRUE
Unregister == registered' = FALSE

(* DMRegister: Register under the mutex.                                   *)
DMRegister ==
  /\ Stage("register") /\ dm_mutex = "free"
  /\ Register
  /\ Advance
  /\ UNCHANGED <<single, dirVars, dllVars, toScan, dm_mutex, monitor, scanned, due>>

(* A Factory has nothing to construct; either thread may be the one.       *)
BuildFactory(t) ==
  /\ Built(t, "Factory")
  /\ UNCHANGED <<dirVars, dllVars, stage, toScan, registered, dm_mutex, monitor, scanned, due>>

(* AddCtor of the commands that are built in.                              *)
MainAdd ==
  /\ Stage("Factory") /\ Idle("main") /\ At("main", "Factory", "has")
  /\ lib' = [lib EXCEPT !["main"] = "main"]
  /\ work' = [work EXCEPT !["main"] = "add"]
  /\ Advance
  /\ UNCHANGED <<single, dirVars, copy, opens, nulls, m_map, toScan, registered, dm_mutex,
                 monitor, scanned, due>>

(* Framework::Run returns and the process exits.                           *)
Exit ==
  /\ Stage("run") /\ Idle("main")
  /\ QuietExit => events = <<>> /\ monitor \in {"read", "gone"}
  /\ stage' = 0
  /\ UNCHANGED <<single, dirVars, dllVars, toScan, registered, dm_mutex, monitor, scanned, due>>

(* ~Factory.                                                               *)
DestroyFactory ==
  /\ stage = 0 /\ Dtor("Factory")
  /\ m_map' = {}
  /\ UNCHANGED <<dirVars, work, lib, copy, opens, nulls, stage, toScan, registered, dm_mutex,
                 monitor, scanned, due>>

(* ~DLLLoader: dlclose, and ~ACallback, which unregisters without the      *)
(* mutex of DirMonitor.                                                    *)
DestroyLoader ==
  /\ stage = 0 /\ ~nulls /\ Dtor("DLLLoader")
  /\ opens' = [p \in Plugins |-> 0]
  /\ Unregister
  /\ UNCHANGED <<dirVars, work, lib, copy, nulls, m_map, stage, toScan, dm_mutex, monitor, scanned, due>>

Crashed == -3

(* dlclose(NULL) reads through the null pointer and the process ends.      *)
CloseNull ==
  /\ stage = 0 /\ nulls /\ atexit # <<>> /\ atexit[Len(atexit)] = "DLLLoader"
  /\ stage' = Crashed
  /\ UNCHANGED <<single, dirVars, dllVars, toScan, registered, dm_mutex, monitor, scanned, due>>

(* ~DirMonitor touches exit.txt ...                                        *)
Touch ==
  /\ stage = 0 /\ atexit # <<>> /\ atexit[Len(atexit)] = "DirMonitor"
  /\ Report("IN_ATTRIB", "exit.txt")
  /\ stage' = -1
  /\ UNCHANGED <<single, dllVars, file, foreign, toScan, registered, dm_mutex, monitor, scanned, due>>

(* ... and joins the thread.                                               *)
Join ==
  /\ stage = -1 /\ monitor = "gone"
  /\ Dtor("DirMonitor")
  /\ stage' = -2
  /\ UNCHANGED <<dirVars, dllVars, toScan, registered, dm_mutex, monitor, scanned, due>>

(* The steps of GetInstance in which no constructor runs.                  *)
Getting(t) ==
  /\ \E T \in Classes : InInit(t, T)
  /\ UNCHANGED <<dirVars, dllVars, stage, toScan, registered, dm_mutex, monitor, scanned, due>>

Main ==
  \/ \E T \in Classes : MainGet(T) \/ MainNext(T)
  \/ Getting("main") \/ LoadStep("main") \/ BuildFactory("main")
  \/ BuildMonitor \/ (\E p \in Plugins : Scan(p)) \/ BuildLoader \/ DMRegister \/ MainAdd
  \/ DestroyFactory \/ DestroyLoader \/ CloseNull \/ Touch \/ Join

-----------------------------------------------------------------------------
(* The thread of DirMonitor                                                *)

(* Mutants of Loads: the commented-out IN_MODIFY is back; a plugin that is *)
(* moved in is not looked at.                                              *)
LoadsModified(e) == e.name \in Plugins /\ e.mask \in {"IN_CREATE", "IN_MOVED_TO", "IN_MODIFY"}
LoadsCreated(e)  == e.name \in Plugins /\ e.mask = "IN_CREATE"

Loads(e) == e.name \in Plugins /\ e.mask \in {"IN_CREATE", "IN_MOVED_TO"}

(* Mutant of Ends: only the creation of exit.txt ends the thread.          *)
EndsOnCreate(e) == e.name = "exit.txt" /\ e.mask = "IN_CREATE"

Ends(e) == e.name = "exit.txt" /\ e.mask = "IN_ATTRIB"

(* Monitor takes the next event.                                           *)
Read ==
  /\ monitor = "read" /\ events # <<>>
  /\ LET e == Head(events)
     IN /\ monitor' = IF Ends(e) THEN "gone" ELSE IF Loads(e) THEN "lock" ELSE "read"
        /\ lib' = IF Loads(e) THEN [lib EXCEPT !["monitor"] = e.name] ELSE lib
  /\ events' = Tail(events)
  /\ UNCHANGED <<single, file, foreign, work, copy, opens, nulls, m_map, stage, toScan, registered,
                 dm_mutex, scanned, due>>

(* The lock, and Dispatcher::Notify, which copies the list.                *)
Notify ==
  /\ monitor = "lock" /\ dm_mutex = "free"
  /\ dm_mutex' = "monitor" /\ monitor' = "notify"
  /\ work' = [work EXCEPT !["monitor"] = IF registered THEN "dlopen" ELSE "none"]
  /\ UNCHANGED <<single, dirVars, lib, copy, opens, nulls, m_map, stage, toScan, registered, scanned, due>>

Unlock ==
  /\ monitor = "notify" /\ Idle("monitor")
  /\ dm_mutex' = "free" /\ monitor' = "read"
  /\ UNCHANGED <<single, dirVars, dllVars, stage, toScan, registered, scanned, due>>

Monitor ==
  /\ stage # Crashed
  /\ \/ Read \/ Notify \/ Unlock
     \/ LoadStep("monitor") \/ Getting("monitor") \/ BuildFactory("monitor")

Directory == ForeignExit \/ \E p \in Plugins : Create(p) \/ Write(p) \/ MoveIn(p)

Next == Main \/ Exit \/ Monitor \/ Directory

(* Both threads keep running; nobody has to stop the process or to bring a *)
(* plugin.                                                                 *)
Spec == Init /\ [][Next]_vars /\ WF_vars(Main) /\ WF_vars(Monitor)

-----------------------------------------------------------------------------
(* Types; and a plugin is opened at most twice, by the scan and for the    *)
(* event of its arrival (DLLLoader::Load, Monitor).                        *)
TypeOK ==
  /\ SingletonTypeOK
  /\ file \in [Plugins -> {"absent", "partial", "whole"}]
  /\ stage \in Crashed..Len(Order)
  /\ toScan \subseteq Plugins /\ scanned \subseteq Plugins /\ due \subseteq Plugins
  /\ registered \in BOOLEAN /\ foreign \in BOOLEAN
  /\ dm_mutex \in {"free", "monitor"}
  /\ monitor \in {"none", "read", "lock", "notify", "gone"}
  /\ work \in [Threads -> {"none", "dlopen", "init", "add", "added"}]
  /\ opens \in [Plugins -> 0..2] /\ nulls \in BOOLEAN
  /\ m_map \subseteq Plugins \cup {"main"}

(* When ~DLLLoader has unmapped the plugins, the Factory holds no creator  *)
(* whose code was in one, unless the scan of the constructor loaded it:    *)
(* the Factory is destroyed first, because Framework::Framework asks for   *)
(* DLLLoader before anyone registers a creator.                            *)
CodeOutlivesCreators ==
  "DLLLoader" \in destroyed /\ scanned = {} => m_map \cap Plugins = {}

(* A plugin that the scan finds complete, or that is moved in once the     *)
(* loader is registered, is loaded, unless the process exits first or      *)
(* another process ended the monitor (Monitor, Notify, Load).              *)
HotLoaded ==
  \A p \in Plugins : p \in due ~> opens[p] > 0 \/ Exiting \/ foreign

(* The constructor of Framework returns, whatever the monitor thread does  *)
(* meanwhile, and exit joins that thread and ends, or ~DLLLoader closes    *)
(* the NULL of a dlopen that failed (GetInstance, Load, ~DLLLoader,        *)
(* ~DirMonitor).                                                           *)
StartsAndEnds ==
  /\ <>Stage("run")
  /\ Exiting ~> stage = -2 \/ (stage = Crashed /\ nulls)
=============================================================================
