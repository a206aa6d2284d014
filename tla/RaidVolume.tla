----------------------------- MODULE RaidVolume -----------------------------
(***************************************************************************)
(* The volume as the files of the three minions, with the placement of     *)
(* Raid01: a write goes to both places of its first cell, a read to the    *)
(* original place only, and neither is cut at the end of its stripe.       *)
(* Requests run one after the other and every datagram is delivered: this  *)
(* module asks what the LAYOUT does, IotDrive what the messages and the    *)
(* threads do.                                                             *)
(***************************************************************************)
EXTENDS Raid01

CONSTANTS Bytes,        \* what a cell can hold
          Zero,         \* what a fresh minion file is filled with
          MaxRequest    \* longest request, in cells (max_sectors_kb)

ASSUME VolumeAssumption ==
  /\ Zero \in Bytes
  /\ MaxRequest \in 1 .. MINION_SIZE

(* What the kernel may issue: anything of at most MaxRequest cells that    *)
(* lies on the device.  The limit is one of size, not of alignment: a      *)
(* request may cross the boundary of two stripes.                          *)
Requests == {r \in [offset : 0 .. (MEMORY - 1), size : 1 .. MaxRequest] :
               r.offset + r.size <= MEMORY}

VARIABLES files,        \* minionN.bin of every minion, as long as it is
          result,       \* what the last request returned
          call,         \* ghost: the last request and its data
          overrun       \* ghost: cells whose backup another stripe's write hit

vars == <<files, result, call, overrun>>

(* What GetBinFile fills.                                                  *)
Cells == 0 .. (2 * MINION_SIZE - 1)

(* The cells of the file that a request of a size at a place covers.       *)
Span(place, size) == place.offset .. (place.offset + size - 1)

(* seekp + write at one place; a write past the end makes the file longer. *)
Store(fs, place, size, data) ==
  [fs EXCEPT ![place.minion] =
     [c \in (DOMAIN @) \cup Span(place, size) |->
        IF c \in Span(place, size) THEN data[c - place.offset] ELSE @[c]]]

(* seekg + read at one place.                                              *)
Fetch(fs, place, size) ==
  [i \in 0 .. (size - 1) |-> fs[place.minion][place.offset + i]]

(* The cells of the volume that a request names in the stripe it begins    *)
(* in, and by how many cells it goes on after the end of that stripe.      *)
Named(r) == {o \in r.offset .. (r.offset + r.size - 1) :
               o \div MINION_SIZE = r.offset \div MINION_SIZE}
Excess(r) == (r.offset % MINION_SIZE) + r.size - MINION_SIZE

(* The cells whose backup lies, on the minion of the original, right after *)
(* the end of the stripe: the first ones of the stripe before.             *)
Hit(r) == {o \in 0 .. (MEMORY - 1) :
             /\ ((o \div MINION_SIZE) + 1) % 3 = r.offset \div MINION_SIZE
             /\ o % MINION_SIZE < Excess(r)}

(* What a write returns.                                                   *)
Nothing == [i \in {} |-> Zero]

(* Mutant of Init: the last cell is not filled.                            *)
InitUnfilled == /\ files = [m \in Minions |-> [c \in Cells \ {2 * MINION_SIZE - 1} |-> Zero]]
                /\ result = Nothing
                /\ call = <<>>
                /\ overrun = {}

(* GetBinFile on all three minions.                                        *)
Init == /\ files = [m \in Minions |-> [c \in Cells |-> Zero]]
        /\ result = Nothing
        /\ call = <<>>
        /\ overrun = {}

(* WriteCommand::Execute and the two MinionWriteCmd::Execute it causes.    *)
WriteCommand(r, data) ==
  LET raid == OffsetToProxy(r.offset) IN
  /\ files' = Store(Store(files, raid[1], r.size, data), raid[2], r.size, data)
  /\ call' = <<"write", r, data>>
  /\ overrun' = (overrun \cup Hit(r)) \ Named(r)
  /\ result' = Nothing

(* Mutant of ReadCommand: the offset of the backup at the original.        *)
ReadCommandBackupOffset(r) ==
  LET raid == OffsetToProxy(r.offset) IN
  /\ result' = [i \in 0 .. (r.size - 1) |->
                  files[raid[1].minion][(raid[2].offset + i) % (2 * MINION_SIZE)]]
  /\ call' = <<"read", r>>
  /\ UNCHANGED <<files, overrun>>

(* ReadCommand::Execute and the MinionReadCmd::Execute it causes.          *)
ReadCommand(r) ==
  /\ result' = Fetch(files, OffsetToProxy(r.offset)[1], r.size)
  /\ call' = <<"read", r>>
  /\ UNCHANGED <<files, overrun>>

Next == \E r \in Requests :
          \/ \E data \in [0 .. (r.size - 1) -> Bytes] : WriteCommand(r, data)
          \/ ReadCommand(r)

Spec == Init /\ [][Next]_vars

-----------------------------------------------------------------------------
Original(o) == OffsetToProxy(o)[1]
Backup(o)   == OffsetToProxy(o)[2]
At(fs, place) == fs[place.minion][place.offset]

(* A file that GetBinFile has filled and that writes may have made longer. *)
BinFile == UNION {[0 .. (n - 1) -> Bytes] :
                    n \in (2 * MINION_SIZE) .. (2 * MINION_SIZE + MaxRequest - 1)}

(* Type invariant: a file (command.cpp, GetBinFile) never gets shorter     *)
(* than what was filled; a write whose backup crosses the end of its       *)
(* stripe goes past the 8 MB, by less than one request.  A read never gets *)
(* to the end of a file.                                                   *)
TypeOK == /\ files \in [Minions -> BinFile]
          /\ result \in UNION {[0 .. (n - 1) -> Bytes] : n \in 0 .. MaxRequest}
          /\ overrun \subseteq 0 .. (MEMORY - 1)

(* RAID 10 (README:5, Raid01::OffsetToProxy), as far as the code has it:   *)
(* after any sequence of requests, crossing ones included, the two copies  *)
(* of a cell of the volume differ only if a write that began in the next   *)
(* stripe went past its end (onto the backup of this cell) and the cell    *)
(* has not been written since.                                             *)
Mirrored == \A o \in (0 .. (MEMORY - 1)) \ overrun :
              At(files, Original(o)) = At(files, Backup(o))

(* The disk the kernel sees.                                               *)
disk == [o \in 0 .. (MEMORY - 1) |-> At(files, Original(o))]

Device == INSTANCE BlockDevice WITH Size <- MEMORY, Stripe <- MINION_SIZE

(* After any sequence of requests, crossing ones included, a write changes *)
(* exactly the cells it names in the stripe it begins in (never those it   *)
(* names in the next stripe, nor any other) and a read returns what was    *)
(* last written to them: a request inside one stripe is served as by a     *)
(* flat disk, the rest of a longer one is lost (raid01.cpp, OffsetToProxy  *)
(* looks at the first byte only).                                          *)
ImplementsBlockDevice == Device!Spec

=============================================================================
