---------------------------- MODULE MinionStore -----------------------------
(***************************************************************************)
(* The files of the minions (AMinionCmd, MinionReadCmd, MinionWriteCmd in  *)
(* command.cpp, MasterProxy in inputproxy.cpp).  A minion keeps its blocks *)
(* in minionN.bin, and GetBinFile zero fills that file on the first        *)
(* command after every start of the process.                               *)
(***************************************************************************)
EXTENDS Raid01

CONSTANTS Values,       \* contents of a block
          Zero,         \* the zero filled block
          MaxRestarts   \* bound: restarts of minion processes

ASSUME StoreAssumption == Zero \in Values /\ MaxRestarts \in Nat

VARIABLES files,        \* minionN.bin of every minion
          is_init,      \* GetBinFile's static flag, per minion
          restarts      \* restarts so far

storeVars == <<files, is_init, restarts>>

Offsets == 0 .. (2 * MINION_SIZE - 1)

StoreTypeOK == /\ files \in [Minions -> [Offsets -> Values]]
               /\ is_init \in [Minions -> BOOLEAN]
               /\ restarts \in 0 .. MaxRestarts

StoreInit == /\ files = [m \in Minions |-> [o \in Offsets |-> Zero]]
             /\ is_init = [m \in Minions |-> TRUE]
             /\ restarts = 0

(* What the file of m holds once GetBinFile has returned.                  *)
GetBinFile(m) == IF is_init[m] THEN [o \in Offsets |-> Zero] ELSE files[m]

(* Mutant of StoreBlock: the flag is never cleared.                        *)
StoreBlockKeepsFlag(place, data) ==
  /\ files' = [files EXCEPT ![place.minion] =
                 [GetBinFile(place.minion) EXCEPT ![place.offset] = data]]
  /\ UNCHANGED <<is_init, restarts>>

(* seekp and write of one block.                                           *)
StoreBlock(place, data) ==
  /\ files' = [files EXCEPT ![place.minion] =
                 [GetBinFile(place.minion) EXCEPT ![place.offset] = data]]
  /\ is_init' = [is_init EXCEPT ![place.minion] = FALSE]
  /\ UNCHANGED restarts

(* seekg and read of one block.                                            *)
FetchBlock(place) == GetBinFile(place.minion)[place.offset]

(* A read opens the file too, and zero fills it the first time.            *)
Touch(m) == /\ files' = [files EXCEPT ![m] = GetBinFile(m)]
            /\ is_init' = [is_init EXCEPT ![m] = FALSE]
            /\ UNCHANGED restarts

(* The process of minion m ends and is started again: the file is still    *)
(* there, the static flag is as in a new process.                          *)
Restart(m) == /\ restarts < MaxRestarts
              /\ is_init' = [is_init EXCEPT ![m] = TRUE]
              /\ restarts' = restarts + 1
              /\ UNCHANGED files
=============================================================================
