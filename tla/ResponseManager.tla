--------------------------- MODULE ResponseManager --------------------------
(***************************************************************************)
(* The watch list of the master (class ResponseManeger,                    *)
(* response_manger.cpp) and the uid counter it draws from (ThreadSafeUID,  *)
(* message.cpp).  Workers register commands, the reactor thread registers  *)
(* responses and timer threads poll for them; the std::unordered_map has   *)
(* no lock.                                                                *)
(***************************************************************************)
EXTENDS Integers

CONSTANTS MaxUid,     \* bound: uids handed out in one run of the master
          MapRaces    \* may unsynchronised access lose an entry of the map?

ASSUME ResponseManagerAssumption ==
  /\ MaxUid \in Nat \ {0}
  /\ MapRaces \in BOOLEAN

VARIABLES m_static_counter,   \* next ThreadSafeUID
          m_watchlist         \* uid -> Status

rmVars == <<m_static_counter, m_watchlist>>

Uid == 1 .. MaxUid

(* operator[] creates a missing entry with the value PROCESSING_REQUEST    *)
(* before anyone looks at it, so a uid that is not in the map is one that  *)
(* maps to PROCESSING_REQUEST.                                             *)
Status == {"PROCESSING_REQUEST", "DONE"}

RMTypeOK == /\ m_static_counter \in 1 .. (MaxUid + 1)
            /\ m_watchlist \in [Uid -> Status]

RMInit == /\ m_static_counter = 1
          /\ m_watchlist = [u \in Uid |-> "PROCESSING_REQUEST"]

(* Mutant of RegisterCommands: the counter lags one behind.                *)
RegisterCommandsLagging(n) ==
  /\ m_static_counter + n <= MaxUid + 1
  /\ m_static_counter' = m_static_counter + n - 1
  /\ m_watchlist' = [u \in Uid |->
       IF u \in m_static_counter .. (m_static_counter + n - 1)
       THEN "PROCESSING_REQUEST" ELSE m_watchlist[u]]

(* n calls of RegisterCommand in a row: the uids m_static_counter and up   *)
(* are handed out and entered into the map.                                *)
RegisterCommands(n) ==
  /\ m_static_counter + n <= MaxUid + 1
  /\ m_static_counter' = m_static_counter + n
  /\ m_watchlist' = [u \in Uid |->
       IF u \in m_static_counter .. (m_static_counter + n - 1)
       THEN "PROCESSING_REQUEST" ELSE m_watchlist[u]]

RegisterResponse(u) ==
  /\ m_watchlist' = [m_watchlist EXCEPT ![u] = "DONE"]
  /\ UNCHANGED m_static_counter

(* What HasResponseRecived(u) returns ...                                  *)
HasResponse(u) == m_watchlist[u] = "DONE"

(* ... and what it leaves behind: a response is reported once, then its    *)
(* entry is erased.                                                        *)
PollEntry(u) ==
  /\ m_watchlist' = [m_watchlist EXCEPT ![u] = "PROCESSING_REQUEST"]
  /\ UNCHANGED m_static_counter

(* Two threads inside the map at once: undefined behaviour, of which the   *)
(* model keeps the loss of an entry from the hash chain.                   *)
LoseEntry(u) ==
  /\ MapRaces
  /\ m_watchlist[u] = "DONE"
  /\ m_watchlist' = [m_watchlist EXCEPT ![u] = "PROCESSING_REQUEST"]
  /\ UNCHANGED m_static_counter
=============================================================================
