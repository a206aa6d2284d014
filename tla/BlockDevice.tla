---------------------------- MODULE BlockDevice -----------------------------
(***************************************************************************)
(* What the volume gives the kernel: a disk whose requests end at the end  *)
(* of the stripe they begin in.  A write changes the cells it names in     *)
(* that stripe and no other; a read returns what those cells hold, and     *)
(* anything for the rest.  A request inside one stripe is thus served as   *)
(* by a flat disk; the rest of a longer one is silently not executed.      *)
(***************************************************************************)
EXTENDS Integers

CONSTANTS Size,        \* cells of the disk
          Stripe,      \* cells of a stripe
          Bytes,       \* what a cell can hold
          Zero,        \* what a new disk holds
          Requests     \* the requests [offset, size] the kernel may issue

VARIABLES disk,        \* the cells
          result,      \* what the last request returned
          call         \* the last request and its data

(* The cells that a request names, and those of them it is served for.     *)
Range(r)  == r.offset .. (r.offset + r.size - 1)
Served(r) == {o \in Range(r) : o \div Stripe = r.offset \div Stripe}

Nothing == [i \in {} |-> Zero]

Init == /\ disk = [o \in 0 .. (Size - 1) |-> Zero]
        /\ result = Nothing
        /\ call = <<>>

Write(r, data) ==
  /\ call' = <<"write", r, data>>
  /\ disk' = [o \in 0 .. (Size - 1) |->
                IF o \in Served(r) THEN data[o - r.offset] ELSE disk[o]]
  /\ result' = Nothing

Read(r) ==
  /\ call' = <<"read", r>>
  /\ result' \in [0 .. (r.size - 1) -> Bytes]
  /\ \A o \in Served(r) : result'[o - r.offset] = disk[o]
  /\ UNCHANGED disk

Next == \E r \in Requests :
          \/ \E data \in [0 .. (r.size - 1) -> Bytes] : Write(r, data)
          \/ Read(r)

Spec == Init /\ [][Next]_<<disk, result, call>>
=============================================================================
