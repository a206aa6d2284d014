----------------------------- MODULE MinionDisk -----------------------------
(***************************************************************************)
(* What a minion promises to the master: a flat disk, without stripes,     *)
(* that a restart of the process empties.                                  *)
(***************************************************************************)
EXTENDS Integers

CONSTANTS Size,        \* cells of the disk
          Bytes,       \* what a cell can hold
          Zero,        \* what a new disk holds
          Requests     \* the commands [offset, size] the master may send

VARIABLES disk,        \* the cells
          result,      \* what the last read returned
          call         \* the last command and its data

Empty    == [o \in 0 .. (Size - 1) |-> Zero]
Range(r) == r.offset .. (r.offset + r.size - 1)

Init == disk = Empty /\ result = [k \in {} |-> Zero] /\ call = <<>>

Write(r, data) ==
  /\ disk' = [o \in 0 .. (Size - 1) |->
                IF o \in Range(r) THEN data[o - r.offset] ELSE disk[o]]
  /\ call' = <<"write", r, data>>
  /\ UNCHANGED result

Read(r) ==
  /\ result' = [k \in 0 .. (r.size - 1) |-> disk[r.offset + k]]
  /\ call' = <<"read", r>>
  /\ UNCHANGED disk

(* The process ends and is started again.                                  *)
Forget == disk' = Empty /\ UNCHANGED <<result, call>>

Next == \/ \E r \in Requests : \/ Read(r)
                               \/ \E data \in [0 .. (r.size - 1) -> Bytes] : Write(r, data)
        \/ Forget

DiskSpec == Init /\ [][Next]_<<disk, result, call>>
=============================================================================
