-------------------------- MODULE MinionFileProofs --------------------------
(***************************************************************************)
(* A minion's file implements a disk that a restart empties, for any       *)
(* number of workers, any size of file and request and any restarts.       *)
(***************************************************************************)
EXTENDS MinionFile, TLAPS

(* What a command holds.                                                   *)
LEMMA CommandShape ==
  ASSUME NEW c \in Commands
  PROVE  /\ c.op \in {"read", "write"} /\ c.req \in Requests
         /\ c.op = "write" => c.data \in [0 .. (c.req.size - 1) -> Bytes]
BY DEF Commands

LEMMA RequestShape ==
  ASSUME NEW r \in Requests
  PROVE  r.offset \in Nat /\ r.size \in Nat \ {0} /\ r.offset + r.size <= Size
BY FileAssumption DEF Requests, Cells

(* One worker at a time has a command.                                     *)
Alone ==
  /\ \A w \in Workers : pc[w] # "idle" => outstanding /\ job[w] \in Commands
  /\ \A v, w \in Workers : pc[v] # "idle" /\ pc[w] # "idle" => v = w
  /\ ~outstanding => pos = 0

(* Where the position of the stream is, and how far the fill has come, at  *)
(* each step of worker w.                                                  *)
Progress(w) ==
  /\ pc[w] \in {"test", "respond"} => pos = 0
  /\ pc[w] = "fill" => /\ is_init /\ pos = i[w] /\ i[w] < Size
                       /\ \A c \in Cells : c < pos => file[c] = Zero
  /\ pc[w] = "clear" => is_init /\ \A c \in Cells : file[c] = Zero
  /\ pc[w] \in {"rewind", "seek", "access", "home", "respond"} => ~is_init
  /\ pc[w] = "access" => pos = job[w].req.offset

FileInv == TypeOK /\ Alone /\ \A w \in Workers : Progress(w)

(* While one worker has a command the others are idle, and an idle worker  *)
(* satisfies Progress whatever is changed.                                 *)
LEMMA OthersIdle ==
  ASSUME Alone, NEW w \in Workers, NEW v \in Workers, v # w, pc[w] # "idle",
         TypeOK, NEW l, pc' = [pc EXCEPT ![w] = l]
  PROVE  pc'[v] = "idle" /\ Progress(v)'
<1>1. pc[v] = "idle"
  BY DEF Alone
<1>2. pc'[v] = "idle"
  BY <1>1 DEF TypeOK
<1> QED BY <1>2 DEF Progress

LEMMA InitFile == Init => FileInv
<1> SUFFICES ASSUME Init PROVE FileInv
  OBVIOUS
<1>1. TypeOK
  <2>1. file \in [Cells -> Bytes] /\ is_init \in BOOLEAN /\ outstanding \in BOOLEAN
    BY Zenon DEF Init
  <2>2. pos \in 0 .. Size /\ restarts \in 0 .. MaxRestarts
    BY FileAssumption DEF Init
  <2>3. pc \in [Workers -> PCs] /\ job \in [Workers -> Commands \cup {NoCommand}]
    BY Zenon DEF Init, PCs
  <2>4. i \in [Workers -> 0 .. Size]
    BY FileAssumption DEF Init
  <2> QED BY <2>1, <2>2, <2>3, <2>4 DEF TypeOK
<1>2. Alone
  BY DEF Init, Alone
<1>3. \A w \in Workers : Progress(w)
  BY DEF Init, Progress
<1> QED BY <1>1, <1>2, <1>3 DEF FileInv

LEMMA ReceiveFile ==
  ASSUME FileInv, NEW w \in Workers, NEW c \in Commands, Receive(w, c)
  PROVE  FileInv'
<1> USE DEF FileInv, Receive, Goto
<1>1. TypeOK'
  BY DEF TypeOK, PCs
<1>2. \A v \in Workers : pc[v] = "idle"
  BY DEF Alone
<1>3. \A v \in Workers : v # w => pc'[v] = "idle"
  BY <1>2 DEF TypeOK
<1>4. pc'[w] = "test" /\ job'[w] = c /\ outstanding'
  BY DEF TypeOK
<1>5. Alone'
  BY <1>3, <1>4 DEF Alone
<1>6. pos' = 0
  BY DEF Alone
<1>7. \A v \in Workers : Progress(v)'
  BY <1>3, <1>4, <1>6 DEF Progress
<1> QED BY <1>1, <1>5, <1>7

LEMMA StepFile ==
  ASSUME FileInv, NEW w \in Workers, Step(w)
  PROVE  FileInv'
<1> USE DEF FileInv, Goto
<1>0. job[w] \in Commands /\ outstanding
  BY DEF Alone, Step, Test, Fill, Clear, Rewind, Seek, Write, Read, Home, Respond
<1>1. CASE Test(w)
  <2>1. TypeOK'
    BY <1>1, FileAssumption DEF TypeOK, PCs, Test
  <2>2. Alone'
    BY <1>0, <1>1 DEF Alone, Test, TypeOK
  <2>3. Progress(w)'
    <3>1. pc'[w] = (IF is_init THEN "fill" ELSE "seek") /\ i'[w] = 0
      BY <1>1 DEF Test, TypeOK
    <3>2. pos' = 0 /\ is_init' = is_init
      BY <1>1 DEF Test, Progress
    <3> QED BY <3>1, <3>2, FileAssumption DEF Progress, Cells
  <2>4. \A v \in Workers : v # w => Progress(v)'
    BY <1>1, OthersIdle DEF Test
  <2> QED BY <2>1, <2>2, <2>3, <2>4
<1>2. CASE Fill(w)
  <2>0. /\ pos = i[w] /\ pos \in Cells /\ is_init
        /\ \A c \in Cells : c < pos => file[c] = Zero
    BY <1>2, FileAssumption DEF Fill, Progress, TypeOK, Cells
  <2>1. TypeOK'
    BY <1>2, <2>0, FileAssumption DEF TypeOK, PCs, Fill, Cells
  <2>2. Alone'
    BY <1>0, <1>2 DEF Alone, Fill, TypeOK
  <2>3. \A c \in Cells : c < pos' => file'[c] = Zero
    BY <1>2, <2>0 DEF Fill, TypeOK, Cells
  <2>4. pc'[w] = (IF i[w] + 1 < Size THEN "fill" ELSE "clear") /\ i'[w] = i[w] + 1
    BY <1>2 DEF Fill, TypeOK
  <2>5. Progress(w)'
    BY <1>2, <2>0, <2>3, <2>4, FileAssumption DEF Progress, Fill, Cells
  <2>6. \A v \in Workers : v # w => Progress(v)'
    BY <1>2, OthersIdle DEF Fill
  <2> QED BY <2>1, <2>2, <2>5, <2>6
<1>3. CASE Clear(w)
  <2>1. TypeOK'
    BY <1>3 DEF TypeOK, PCs, Clear
  <2>2. Alone'
    BY <1>0, <1>3 DEF Alone, Clear, TypeOK
  <2>3. Progress(w)'
    BY <1>3 DEF Progress, Clear, TypeOK
  <2>4. \A v \in Workers : v # w => Progress(v)'
    BY <1>3, OthersIdle DEF Clear
  <2> QED BY <2>1, <2>2, <2>3, <2>4
<1>4. CASE Rewind(w)
  <2>1. TypeOK'
    BY <1>4, FileAssumption DEF TypeOK, PCs, Rewind
  <2>2. Alone'
    BY <1>0, <1>4 DEF Alone, Rewind, TypeOK
  <2>3. Progress(w)'
    BY <1>4 DEF Progress, Rewind, TypeOK
  <2>4. \A v \in Workers : v # w => Progress(v)'
    BY <1>4, OthersIdle DEF Rewind
  <2> QED BY <2>1, <2>2, <2>3, <2>4
<1>5. CASE Seek(w)
  <2>0. job[w].req.offset \in 0 .. Size
    BY <1>0, CommandShape, RequestShape, FileAssumption
  <2>1. TypeOK'
    BY <1>5, <2>0 DEF TypeOK, PCs, Seek
  <2>2. Alone'
    BY <1>0, <1>5 DEF Alone, Seek, TypeOK
  <2>3. Progress(w)'
    BY <1>5 DEF Progress, Seek, TypeOK
  <2>4. \A v \in Workers : v # w => Progress(v)'
    BY <1>5, OthersIdle DEF Seek
  <2> QED BY <2>1, <2>2, <2>3, <2>4
<1>6. CASE Write(w) \/ Read(w)
  <2>0. pos = job[w].req.offset /\ pos + job[w].req.size \in 0 .. Size /\ pc[w] = "access"
    <3>1. pc[w] = "access" /\ pos = job[w].req.offset
      BY <1>6 DEF Progress, Write, Read
    <3>2. job[w].req \in Requests
      BY <1>0, CommandShape
    <3>3. /\ job[w].req.offset \in Nat /\ job[w].req.size \in Nat
          /\ job[w].req.offset + job[w].req.size <= Size
      BY <3>2, RequestShape
    <3> QED BY <3>1, <3>3, FileAssumption
  <2>1. file' \in [Cells -> Bytes]
    <3>1. CASE Read(w)
      BY <3>1 DEF Read, TypeOK
    <3>2. CASE Write(w)
      <4>1. job[w].data \in [0 .. (job[w].req.size - 1) -> Bytes]
        BY <1>0, <3>2, CommandShape DEF Write
      <4>2. ASSUME NEW c \in Cells, c \in Span(w)
            PROVE  c - pos \in 0 .. (job[w].req.size - 1)
        <5>1. job[w].req \in Requests
          BY <1>0, CommandShape
        <5>2. pos \in Nat /\ job[w].req.size \in Nat
          BY <2>0, <5>1, RequestShape
        <5> QED BY <4>2, <5>2, FileAssumption DEF Span, Cells
      <4>3. \A c \in Cells : (IF c \in Span(w) THEN job[w].data[c - pos] ELSE file[c]) \in Bytes
        BY <4>1, <4>2 DEF TypeOK
      <4> QED BY <3>2, <4>3 DEF Write, Written
    <3> QED BY <1>6, <3>1, <3>2
  <2>2. /\ pc' = [pc EXCEPT ![w] = "home"] /\ pos' = pos + job[w].req.size
        /\ UNCHANGED <<is_init, job, i, outstanding, restarts>>
    BY <1>6 DEF Write, Read
  <2>3. TypeOK'
    BY <2>0, <2>1, <2>2 DEF TypeOK, PCs
  <2>4. Alone'
    BY <1>0, <2>0, <2>2 DEF Alone, TypeOK
  <2>5. Progress(w)'
    BY <2>0, <2>2 DEF Progress, TypeOK
  <2>6. \A v \in Workers : v # w => Progress(v)'
    BY <2>0, <2>2, OthersIdle
  <2> QED BY <2>3, <2>4, <2>5, <2>6
<1>7. CASE Home(w)
  <2>1. TypeOK'
    BY <1>7, FileAssumption DEF TypeOK, PCs, Home
  <2>2. Alone'
    BY <1>0, <1>7 DEF Alone, Home, TypeOK
  <2>3. Progress(w)'
    BY <1>7 DEF Progress, Home, TypeOK
  <2>4. \A v \in Workers : v # w => Progress(v)'
    BY <1>7, OthersIdle DEF Home
  <2> QED BY <2>1, <2>2, <2>3, <2>4
<1>8. CASE Respond(w)
  <2>1. TypeOK'
    BY <1>8 DEF TypeOK, PCs, Respond
  <2>2. \A v \in Workers : v # w => pc'[v] = "idle" /\ Progress(v)'
    BY <1>8, OthersIdle DEF Respond
  <2>3. pc'[w] = "idle" /\ pos' = 0
    BY <1>8 DEF Respond, TypeOK, Progress
  <2>4. Alone' /\ Progress(w)'
    BY <2>2, <2>3 DEF Alone, Progress
  <2> QED BY <2>1, <2>2, <2>4
<1> QED
  BY <1>1, <1>2, <1>3, <1>4, <1>5, <1>6, <1>7, <1>8 DEF Step

LEMMA RestartFile ==
  ASSUME FileInv, Restart
  PROVE  FileInv'
<1> USE DEF FileInv, Restart
<1>1. TypeOK'
  <2>1. file' \in [Cells -> Bytes] /\ is_init' \in BOOLEAN /\ outstanding' \in BOOLEAN
    BY Zenon DEF TypeOK
  <2>2. pos' \in 0 .. Size /\ restarts' \in 0 .. MaxRestarts
    BY FileAssumption DEF TypeOK
  <2>3. pc' \in [Workers -> PCs] /\ job' \in [Workers -> Commands \cup {NoCommand}]
    BY Zenon DEF PCs
  <2>4. i' \in [Workers -> 0 .. Size]
    BY FileAssumption
  <2> QED BY <2>1, <2>2, <2>3, <2>4 DEF TypeOK
<1>2. Alone' /\ \A w \in Workers : Progress(w)'
  BY DEF Alone, Progress
<1> QED BY <1>1, <1>2

LEMMA NextFile == FileInv /\ [Next]_vars => FileInv'
<1> SUFFICES ASSUME FileInv, [Next]_vars PROVE FileInv'
  OBVIOUS
<1>1. CASE UNCHANGED vars
  BY <1>1 DEF vars, FileInv, TypeOK, Alone, Progress
<1>2. CASE Next
  BY <1>2, ReceiveFile, StepFile, RestartFile DEF Next
<1> QED BY <1>1, <1>2

(* Every position a command reads or writes from is inside the file, for   *)
(* any number of workers and any sizes (MinionReadCmd, MinionWriteCmd,     *)
(* GetBinFile).                                                            *)
THEOREM FileTypeTheorem == Spec => []TypeOK
<1>1. FileInv => TypeOK
  BY DEF FileInv
<1> QED BY <1>1, InitFile, NextFile, PTL DEF Spec

-----------------------------------------------------------------------------
(* Steps between the accesses do not change what a command can see.        *)
LEMMA Hidden ==
  ASSUME FileInv, NEW w \in Workers,
         Test(w) \/ Fill(w) \/ Clear(w) \/ Rewind(w) \/ Seek(w) \/ Home(w) \/ Respond(w)
  PROVE  UNCHANGED <<Contents, result, call>>
<1> USE DEF FileInv, Goto
<1>1. CASE Fill(w)
  BY <1>1 DEF Fill, Progress, Contents
<1>2. CASE Clear(w)
  <2>1. is_init /\ ~is_init' /\ file' = file /\ \A c \in Cells : file[c] = Zero
    BY <1>2 DEF Clear, Progress
  <2>2. file = [c \in Cells |-> Zero]
    BY <2>1 DEF TypeOK
  <2> QED BY <1>2, <2>1, <2>2 DEF Contents, Clear
<1>3. CASE Test(w) \/ Rewind(w) \/ Seek(w) \/ Home(w) \/ Respond(w)
  BY <1>3 DEF Test, Rewind, Seek, Home, Respond, Contents
<1> QED BY <1>1, <1>2, <1>3

(* file.write is one write of the abstract disk, file.read one read.       *)
LEMMA Accesses ==
  ASSUME FileInv, NEW w \in Workers, Write(w) \/ Read(w)
  PROVE  D!Next
<1> USE DEF FileInv, Goto
<1>1. /\ job[w] \in Commands /\ pos = job[w].req.offset /\ ~is_init
      /\ is_init' = is_init
  BY DEF Write, Read, Alone, Progress, TypeOK
<1>2. job[w].req \in Requests
  BY <1>1, CommandShape
<1>3. Contents = file /\ Contents' = file'
  BY <1>1 DEF Contents
<1>4. CASE Write(w)
  <2>1. job[w].data \in [0 .. (job[w].req.size - 1) -> Bytes]
    BY <1>1, <1>4, CommandShape DEF Write
  <2>2. D!Write(job[w].req, job[w].data)
    BY <1>1, <1>3, <1>4 DEF D!Write, D!Range, Write, Written, Span, Cells
  <2> QED BY <1>2, <2>1, <2>2 DEF D!Next
<1>5. CASE Read(w)
  <2>1. D!Read(job[w].req)
    BY <1>1, <1>3, <1>5 DEF D!Read, Read, Fetched
  <2> QED BY <1>2, <2>1 DEF D!Next
<1> QED BY <1>4, <1>5

LEMMA DiskStep ==
  FileInv /\ [Next]_vars => [D!Next]_<<Contents, result, call>>
<1> SUFFICES ASSUME FileInv, [Next]_vars
             PROVE  D!Next \/ UNCHANGED <<Contents, result, call>>
  OBVIOUS
<1>1. CASE UNCHANGED vars
  BY <1>1 DEF vars, Contents
<1>2. ASSUME NEW w \in Workers, NEW c \in Commands, Receive(w, c)
      PROVE  UNCHANGED <<Contents, result, call>>
  BY <1>2 DEF Receive, Contents
<1>3. ASSUME NEW w \in Workers, Step(w)
      PROVE  D!Next \/ UNCHANGED <<Contents, result, call>>
  BY <1>3, Hidden, Accesses DEF Step
<1>4. CASE Restart
  BY <1>4 DEF Restart, D!Next, D!Forget, D!Empty, Contents, Cells
<1> QED BY <1>1, <1>2, <1>3, <1>4 DEF Next

(* Seeks, accesses and the zero fill of a minion's workers, without a lock *)
(* on the stream and with a crash between any two calls, implement a disk  *)
(* that a restart empties, while the master has one command under way      *)
(* (MinionReadCmd, MinionWriteCmd, GetBinFile).                            *)
THEOREM MinionDiskTheorem == Spec => ImplementsMinionDisk
<1>1. Init => D!Init
  BY DEF Init, D!Init, D!Empty, Contents, Cells
<1> QED
  BY <1>1, InitFile, NextFile, DiskStep, PTL DEF Spec, ImplementsMinionDisk, D!DiskSpec
=============================================================================
