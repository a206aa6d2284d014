----------------------------- MODULE MinionFile -----------------------------
(***************************************************************************)
(* One minion, call by call: the workers of its pool run MinionReadCmd and *)
(* MinionWriteCmd on one std::fstream (AMinionCmd, command.cpp) that has   *)
(* one position and no lock, and on the static is_init of GetBinFile.      *)
(*                                                                         *)
(*   idle -> test (-> fill .. fill -> clear -> rewind) -> seek -> access   *)
(*        -> home -> respond -> idle                                       *)
(*                                                                         *)
(* The environment is the master, which has at most one command under way  *)
(* at a minion (OneCommandPerMinion of IotDrive): the next one may come as *)
(* soon as the response is sent, and any idle worker may take it.          *)
(***************************************************************************)
EXTENDS Integers

CONSTANTS Workers,      \* threads of the pool
          Size,         \* cells of the file (8 MB)
          Bytes,        \* what a cell can hold
          Zero,         \* what GetBinFile fills the file with
          MaxRequest,   \* longest command, in cells
          MaxRestarts   \* bound: restarts of the process

ASSUME FileAssumption ==
  /\ Size \in Nat \ {0} /\ Zero \in Bytes
  /\ MaxRequest \in 1 .. Size /\ MaxRestarts \in Nat

Cells == 0 .. (Size - 1)

Requests == {r \in [offset : Cells, size : 1 .. MaxRequest] : r.offset + r.size <= Size}

Commands == [op : {"read"}, req : Requests]
              \cup UNION {[op : {"write"}, req : {r}, data : [0 .. (r.size - 1) -> Bytes]]
                            : r \in Requests}

NoCommand == [op |-> "none"]

PCs == {"idle", "test", "fill", "clear", "rewind", "seek", "access", "home", "respond"}

VARIABLES
  file,         \* minionN.bin
  pos,          \* the position of bin_file
  is_init,      \* the static flag of GetBinFile
  pc, job, i,   \* per worker: where it is, its command, GetBinFile's counter
  outstanding,  \* has the master a command under way here?
  restarts,     \* restarts so far
  result, call  \* ghost: the last read's data, the last access

vars == <<file, pos, is_init, pc, job, i, outstanding, restarts, result, call>>

(* Whatever an earlier process left in the file.                           *)
Init ==
  /\ file \in [Cells -> Bytes] /\ pos = 0 /\ is_init = TRUE
  /\ pc = [w \in Workers |-> "idle"]
  /\ job = [w \in Workers |-> NoCommand]
  /\ i = [w \in Workers |-> 0]
  /\ outstanding = FALSE /\ restarts = 0
  /\ result = [k \in {} |-> Zero] /\ call = <<>>

Goto(w, from, to) == pc[w] = from /\ pc' = [pc EXCEPT ![w] = to]

(* A command of the master reaches a worker (MasterProxy::GetArgsKey).     *)
Receive(w, c) ==
  /\ ~outstanding
  /\ Goto(w, "idle", "test")
  /\ job' = [job EXCEPT ![w] = c]
  /\ outstanding' = TRUE
  /\ UNCHANGED <<file, pos, is_init, i, restarts, result, call>>

(* GetBinFile: if(is_init).                                                *)
Test(w) ==
  /\ Goto(w, "test", IF is_init THEN "fill" ELSE "seek")
  /\ i' = [i EXCEPT ![w] = 0]
  /\ UNCHANGED <<file, pos, is_init, job, outstanding, restarts, result, call>>

(* Mutant of Fill: one turn too many.                                      *)
FillOneMore(w) ==
  /\ Goto(w, "fill", IF i[w] < Size THEN "fill" ELSE "clear")
  /\ file' = [file EXCEPT ![pos] = Zero]
  /\ pos' = pos + 1
  /\ i' = [i EXCEPT ![w] = @ + 1]
  /\ UNCHANGED <<is_init, job, outstanding, restarts, result, call>>

(* One turn of the loop that fills the file, from the position onwards.    *)
Fill(w) ==
  /\ Goto(w, "fill", IF i[w] + 1 < Size THEN "fill" ELSE "clear")
  /\ file' = [file EXCEPT ![pos] = Zero]
  /\ pos' = pos + 1
  /\ i' = [i EXCEPT ![w] = @ + 1]
  /\ UNCHANGED <<is_init, job, outstanding, restarts, result, call>>

(* is_init = false.                                                        *)
Clear(w) ==
  /\ Goto(w, "clear", "rewind")
  /\ is_init' = FALSE
  /\ UNCHANGED <<file, pos, job, i, outstanding, restarts, result, call>>

(* bin_file.seekp(0).                                                      *)
Rewind(w) ==
  /\ Goto(w, "rewind", "seek")
  /\ pos' = 0
  /\ UNCHANGED <<file, is_init, job, i, outstanding, restarts, result, call>>

(* seekg or seekp to the offset of the command.                            *)
Seek(w) ==
  /\ Goto(w, "seek", "access")
  /\ pos' = job[w].req.offset
  /\ UNCHANGED <<file, is_init, job, i, outstanding, restarts, result, call>>

(* The cells under the position, and what they hold.                       *)
Span(w) == pos .. (pos + job[w].req.size - 1)

Written(w) == [c \in Cells |-> IF c \in Span(w) THEN job[w].data[c - pos] ELSE file[c]]

Fetched(w) == [k \in 0 .. (job[w].req.size - 1) |-> file[pos + k]]

(* Mutant of Write: the response is sent before the position is reset.     *)
WriteAnswersEarly(w) ==
  /\ job[w].op = "write"
  /\ Goto(w, "access", "home")
  /\ file' = Written(w)
  /\ pos' = pos + job[w].req.size
  /\ call' = <<"write", job[w].req, job[w].data>>
  /\ outstanding' = FALSE
  /\ UNCHANGED <<is_init, job, i, restarts, result>>

(* MinionWriteCmd: file.write.                                             *)
Write(w) ==
  /\ job[w].op = "write"
  /\ Goto(w, "access", "home")
  /\ file' = Written(w)
  /\ pos' = pos + job[w].req.size
  /\ call' = <<"write", job[w].req, job[w].data>>
  /\ UNCHANGED <<is_init, job, i, outstanding, restarts, result>>

(* MinionReadCmd: file.read.                                               *)
Read(w) ==
  /\ job[w].op = "read"
  /\ Goto(w, "access", "home")
  /\ result' = Fetched(w)
  /\ pos' = pos + job[w].req.size
  /\ call' = <<"read", job[w].req>>
  /\ UNCHANGED <<file, is_init, job, i, outstanding, restarts>>

(* Mutant of Home: Execute returns before it has answered.                 *)
HomeReturns(w) ==
  /\ Goto(w, "home", "idle")
  /\ pos' = 0
  /\ UNCHANGED <<file, is_init, job, i, outstanding, restarts, result, call>>

(* seekg(0) or seekp(0) after the access.                                  *)
Home(w) ==
  /\ Goto(w, "home", "respond")
  /\ pos' = 0
  /\ UNCHANGED <<file, is_init, job, i, outstanding, restarts, result, call>>

(* MasterProxy::ReadResponse or WriteResponse, and Execute returns.        *)
Respond(w) ==
  /\ Goto(w, "respond", "idle")
  /\ job' = [job EXCEPT ![w] = NoCommand]
  /\ outstanding' = FALSE
  /\ UNCHANGED <<file, pos, is_init, i, restarts, result, call>>

(* The process ends, at any step, and is started again: the file is opened *)
(* as it is, the command is lost.                                          *)
Restart ==
  /\ restarts < MaxRestarts
  /\ restarts' = restarts + 1
  /\ pos' = 0 /\ is_init' = TRUE /\ outstanding' = FALSE
  /\ pc' = [w \in Workers |-> "idle"]
  /\ job' = [w \in Workers |-> NoCommand]
  /\ i' = [w \in Workers |-> 0]
  /\ UNCHANGED <<file, result, call>>

Step(w) == \/ Test(w) \/ Fill(w) \/ Clear(w) \/ Rewind(w) \/ Seek(w)
           \/ Write(w) \/ Read(w) \/ Home(w) \/ Respond(w)

Next == \/ \E w \in Workers, c \in Commands : Receive(w, c)
        \/ \E w \in Workers : Step(w)
        \/ Restart

Spec == Init /\ [][Next]_vars

(* A worker that has a command goes on.                                    *)
FairSpec == Spec /\ \A w \in Workers : WF_vars(Step(w))

-----------------------------------------------------------------------------
(* Type invariant.  Every position a worker reads or writes from is inside *)
(* the file.                                                               *)
TypeOK ==
  /\ file \in [Cells -> Bytes] /\ pos \in 0 .. Size /\ is_init \in BOOLEAN
  /\ pc \in [Workers -> PCs]
  /\ job \in [Workers -> Commands \cup {NoCommand}]
  /\ i \in [Workers -> 0 .. Size]
  /\ outstanding \in BOOLEAN /\ restarts \in 0 .. MaxRestarts

(* Until GetBinFile has cleared its flag nothing of the file is visible.   *)
Contents == IF is_init THEN [c \in Cells |-> Zero] ELSE file

D == INSTANCE MinionDisk WITH disk <- Contents

(* The seek, access and seek of a command, the zero fill before the first  *)
(* one and a crash between any two of these calls look like one atomic     *)
(* access to a disk that starts out as zeros (MinionReadCmd,               *)
(* MinionWriteCmd, GetBinFile).                                            *)
ImplementsMinionDisk == D!DiskSpec

(* Every command is answered, unless the process ends before (ReadResponse *)
(* and WriteResponse are reached on every path of Execute).                *)
CommandAnswered == outstanding ~> ~outstanding
=============================================================================
