--------------------------- MODULE IotDriveProofs ---------------------------
(***************************************************************************)
(* Proofs about the request path, for any number of requests, blocks and   *)
(* values and for every poll limit.                                        *)
(*                                                                         *)
(* SuccessMeansReplicated is not inductive: "Success" follows from what    *)
(* WriteAIFunc has seen, that from DONE entries of the watch list, those   *)
(* from responses in the inbox and in the network, and those from writes   *)
(* that minions have executed, which in turn carry the place and the data  *)
(* of the request.  Inv has one conjunct for each link of this chain; uids *)
(* being handed out once (Uids) ties the links to one request.             *)
(***************************************************************************)
EXTENDS IotDrive, SequenceTheorems, WellFoundedInduction, TLAPS

-----------------------------------------------------------------------------
(* The placement, for every stripe size                                    *)

(* Raid01::OffsetToProxy, the arithmetic: a volume offset has a stripe     *)
(* number below three and an offset inside the stripe, and the two         *)
(* determine it.                                                           *)
LEMMA DivMod ==
  ASSUME NEW o \in 0 .. (MEMORY - 1)
  PROVE  /\ o \div MINION_SIZE \in 0 .. 2
         /\ o % MINION_SIZE \in 0 .. (MINION_SIZE - 1)
         /\ o = MINION_SIZE * (o \div MINION_SIZE) + (o % MINION_SIZE)
<1> DEFINE q == o \div MINION_SIZE
           r == o % MINION_SIZE
<1>1. /\ MINION_SIZE \in Nat \ {0}
      /\ o \in Nat
      /\ o < 3 * MINION_SIZE
  BY RaidAssumption DEF MEMORY
<1>2. /\ q \in Int
      /\ r \in 0 .. (MINION_SIZE - 1)
      /\ o = MINION_SIZE * q + r
  BY <1>1
<1>3. q >= 0 /\ q < 3
  BY <1>1, <1>2
<1> QED BY <1>2, <1>3

(* The original of an offset lies in the first half of the file of its     *)
(* minion, the backup in the second half of the file of ANOTHER minion:    *)
(* the loss of one minion never takes both copies (Raid01::OffsetToProxy). *)
THEOREM PlacementTheorem ==
  ASSUME NEW o \in 0 .. (MEMORY - 1)
  PROVE  /\ OffsetToProxy(o)[1] \in [minion : Minions, offset : 0 .. (MINION_SIZE - 1)]
         /\ OffsetToProxy(o)[2] \in [minion : Minions,
                                     offset : MINION_SIZE .. (2 * MINION_SIZE - 1)]
         /\ OffsetToProxy(o)[1].minion # OffsetToProxy(o)[2].minion
<1> DEFINE q == o \div MINION_SIZE
           k == o % MINION_SIZE
<1>1. q \in 0 .. 2 /\ k \in 0 .. (MINION_SIZE - 1)
  BY DivMod
<1>2. OffsetToProxy(o) = << [minion |-> q, offset |-> k],
                            [minion |-> (q + 1) % 3, offset |-> k + MINION_SIZE] >>
  BY DEF OffsetToProxy, Place
<1> HIDE DEF q, k
<1>3. MINION_SIZE \in Nat \ {0}
  BY RaidAssumption
<1>4. (q + 1) % 3 \in 0 .. 2 /\ (q + 1) % 3 # q
  BY <1>1
<1>5. k + MINION_SIZE \in MINION_SIZE .. (2 * MINION_SIZE - 1)
  BY <1>1, <1>3
<1> QED BY <1>1, <1>2, <1>4, <1>5 DEF Minions

(* No two offsets of the volume share a place: writing one block never     *)
(* touches a copy of another one (Raid01::OffsetToProxy).                  *)
THEOREM DisjointTheorem ==
  ASSUME NEW o \in 0 .. (MEMORY - 1), NEW p \in 0 .. (MEMORY - 1),
         NEW i \in 1 .. 2, NEW j \in 1 .. 2,
         OffsetToProxy(o)[i] = OffsetToProxy(p)[j]
  PROVE  o = p /\ i = j
<1> DEFINE q == o \div MINION_SIZE
           k == o % MINION_SIZE
           s == p \div MINION_SIZE
           l == p % MINION_SIZE
<1>1. /\ q \in 0 .. 2 /\ k \in 0 .. (MINION_SIZE - 1) /\ o = MINION_SIZE * q + k
      /\ s \in 0 .. 2 /\ l \in 0 .. (MINION_SIZE - 1) /\ p = MINION_SIZE * s + l
  BY DivMod
<1>2. /\ OffsetToProxy(o)[1] = [minion |-> q, offset |-> k]
      /\ OffsetToProxy(o)[2] = [minion |-> (q + 1) % 3, offset |-> k + MINION_SIZE]
      /\ OffsetToProxy(p)[1] = [minion |-> s, offset |-> l]
      /\ OffsetToProxy(p)[2] = [minion |-> (s + 1) % 3, offset |-> l + MINION_SIZE]
  BY DEF OffsetToProxy, Place
<1> HIDE DEF q, k, s, l
<1>3. MINION_SIZE \in Nat \ {0}
  BY RaidAssumption
<1>4. i = j /\ k = l
  <2>1. CASE i = 1 /\ j = 1
    BY <1>2, <2>1
  <2>2. CASE i = 2 /\ j = 2
    <3>1. k + MINION_SIZE = l + MINION_SIZE
      BY <1>2, <2>2
    <3> QED BY <1>1, <1>3, <2>2, <3>1
  <2>3. CASE i = 1 /\ j = 2
    <3>1. k = l + MINION_SIZE
      BY <1>2, <2>3
    <3> QED BY <1>1, <1>3, <3>1
  <2>4. CASE i = 2 /\ j = 1
    <3>1. k + MINION_SIZE = l
      BY <1>2, <2>4
    <3> QED BY <1>1, <1>3, <3>1
  <2> QED BY <2>1, <2>2, <2>3, <2>4
<1>5. q = s
  <2>1. CASE i = 1
    BY <1>2, <1>4, <2>1
  <2>2. CASE i = 2
    <3>1. (q + 1) % 3 = (s + 1) % 3
      BY <1>2, <1>4, <2>2
    <3> QED BY <1>1, <3>1
  <2> QED BY <2>1, <2>2
<1> QED BY <1>1, <1>4, <1>5

-----------------------------------------------------------------------------
(* The inductive invariant                                                 *)

(* The steps of a command that only a write takes.                         *)
WriteOnly == {"sendBackup", "pollBackup", "notify"} \cup Counting \cup Ending

(* Requests and the progress of their commands.                            *)
Progress ==
  \A r \in Rid :
    /\ r > issued => pc[r] = "none"
    /\ pc[r] # "none" => req[r] \in Request
    /\ pc[r] \in {"none", "queued"} =>
         uid[r] = Both(0) /\ seen[r] = Both(FALSE) /\ reply[r] = "none"
    /\ pc[r] \notin {"none", "queued"} =>
         uid[r]["og"] \in Uid /\ (IsWrite(r) => uid[r]["backup"] \in Uid)
    /\ pc[r] \in WriteOnly => IsWrite(r)

(* The requests still in the TCP stream have not been started.             *)
Stream ==
  \A i \in 1 .. Len(tcpUp) :
    /\ tcpUp[i] <= issued
    /\ pc[tcpUp[i]] = "none"
    /\ req[tcpUp[i]] \in Request
    /\ \A j \in 1 .. Len(tcpUp) : tcpUp[i] = tcpUp[j] => i = j

(* The uids handed out so far are those of the commands, each used once.   *)
Uids ==
  /\ \A r \in Rid, c \in Copies : uid[r][c] < m_static_counter
  /\ \A u \in Uid : u < m_static_counter => \E r \in Rid, c \in Copies : uid[r][c] = u
  /\ \A r, s \in Rid, c, e \in Copies :
       uid[r][c] = uid[s][e] /\ uid[r][c] # 0 => r = s /\ c = e

(* What a datagram says of the command whose uid it carries.               *)
DatagramOK(d) ==
  /\ d.uid < m_static_counter
  /\ \A r \in Rid, c \in Copies : uid[r][c] = d.uid =>
       /\ d.type \in {"WriteMsg", "MinionWriteMsg"} <=> IsWrite(r)
       /\ ToMinion(d) => d.place = PlaceOf(c, req[r].offset)
       /\ d.type = "WriteMsg" => d.data = req[r].data
       /\ d.type = "MinionWriteMsg" => Stored(r, c)

Datagrams == /\ \A d \in net : DatagramOK(d)
             /\ \A i \in 1 .. Len(inbox) :
                  DatagramOK(inbox[i]) /\ ~ToMinion(inbox[i])

(* A response of a write is DONE only after the minion has executed it.    *)
Watchlist ==
  \A r \in Rid, c \in Copies :
    uid[r][c] # 0 /\ IsWrite(r) /\ HasResponse(uid[r][c]) => Stored(r, c)

(* Nothing is DONE that was not registered.                                *)
OnlyRegistered == \A u \in Uid : HasResponse(u) => u < m_static_counter

(* The same for what the AI has seen of it.                                *)
Seen == \A r \in Rid, c \in Copies : seen[r][c] => Stored(r, c)

Inv == /\ TypeOK /\ Progress /\ Stream /\ Uids /\ Datagrams
       /\ Watchlist /\ OnlyRegistered /\ Seen /\ SuccessMeansReplicated

-----------------------------------------------------------------------------
(* The two places of a block are places of the files.                      *)
LEMMA PlaceType ==
  ASSUME NEW o \in Blocks, NEW c \in Copies
  PROVE  PlaceOf(c, o) \in Places
<1>1. o \in 0 .. (MEMORY - 1)
  BY DriveAssumption
<1>2. MINION_SIZE \in Nat \ {0}
  BY RaidAssumption
<1>3. 0 .. (MINION_SIZE - 1) \subseteq Offsets
      /\ MINION_SIZE .. (2 * MINION_SIZE - 1) \subseteq Offsets
  BY <1>2 DEF Offsets
<1>4. /\ OffsetToProxy(o)[1] \in Places
      /\ OffsetToProxy(o)[2] \in Places
  BY <1>1, <1>3, PlacementTheorem DEF Places
<1> QED BY <1>4 DEF PlaceOf

(* The initial states.                                                     *)
LEMMA InitInv == Init => Inv
<1> SUFFICES ASSUME Init PROVE Inv
  OBVIOUS
<1> USE DEF Init, RMInit, NetInit, StoreInit
<1>1. TypeOK
  <2>1. RMTypeOK /\ StoreTypeOK
    BY ResponseManagerAssumption, StoreAssumption DEF RMTypeOK, StoreTypeOK, Status
  <2>2. dups \in 0 .. MaxDups /\ interrupts \in 0 .. MaxInterrupts
        /\ issued \in 0 .. MaxRequests /\ short \in 0 .. MaxShort /\ lost \subseteq Uid
    BY NetworkAssumption, DriveAssumption
  <2>3. /\ uid \in [Rid -> [Copies -> 0 .. MaxUid]]
        /\ seen \in [Rid -> [Copies -> BOOLEAN]]
        /\ reg \in [Rid -> 0 .. (POLL_LIMIT + 1)]
        /\ counter \in [Copies -> 0 .. (POLL_LIMIT + 1)]
    BY ResponseManagerAssumption, DriveAssumption DEF Both
  <2>4. pc \in [Rid -> PCs] /\ reply \in [Rid -> Replies \cup {"none"}]
        /\ req \in [Rid -> Request \cup {NoRequest}]
        /\ outcome \in [Rid -> Seq(Unit)]
    BY DEF PCs
  <2>5. /\ tcpUp \in Seq(Rid) /\ tcpDown \in Seq(Unit) /\ inbox \in Seq(Datagram)
        /\ net \subseteq Datagram /\ todo \subseteq Fds /\ confirmed \subseteq Uid
        /\ stored \subseteq [uid : Uid, place : Places, data : Values]
        /\ nbd \in {"idle", "recv"}
    OBVIOUS
  <2> HIDE DEF Init, RMInit, NetInit, StoreInit
  <2> QED BY <2>1, <2>2, <2>3, <2>4, <2>5 DEF TypeOK
<1>2. Progress
  BY DEF Progress, WriteOnly, Counting, Ending
<1>3. Stream /\ Datagrams
  BY DEF Stream, Datagrams
<1>4. Uids /\ OnlyRegistered /\ Watchlist
  BY ResponseManagerAssumption DEF Uids, OnlyRegistered, Watchlist, HasResponse, Uid, Both, Copies
<1>5. Seen /\ SuccessMeansReplicated
  BY DEF Seen, SuccessMeansReplicated, Both, Copies
<1> QED BY <1>1, <1>2, <1>3, <1>4, <1>5 DEF Inv

(* A step of a command or an AI that has its uids keeps Progress and       *)
(* Stream, whatever it does to what its own AI has seen and replied.       *)
LEMMA CommandStep ==
  ASSUME Inv, NEW r \in Rid, NEW p \in PCs \ {"none", "queued"},
         pc[r] \notin {"none", "queued"},
         p \in WriteOnly => IsWrite(r),
         pc' = [pc EXCEPT ![r] = p],
         UNCHANGED <<issued, req, uid, tcpUp>>,
         \A s \in Rid \ {r} : seen'[s] = seen[s] /\ reply'[s] = reply[s]
  PROVE  Progress' /\ Stream'
<1>1. pc'[r] = p /\ \A s \in Rid \ {r} : pc'[s] = pc[s]
  BY DEF Inv, TypeOK
<1>2. Progress'
  <2> SUFFICES ASSUME NEW s \in Rid
               PROVE  /\ s > issued => pc'[s] = "none"
                      /\ pc'[s] # "none" => req[s] \in Request
                      /\ pc'[s] \in {"none", "queued"} =>
                           uid[s] = Both(0) /\ seen'[s] = Both(FALSE) /\ reply'[s] = "none"
                      /\ pc'[s] \notin {"none", "queued"} =>
                           uid[s]["og"] \in Uid /\ (IsWrite(s) => uid[s]["backup"] \in Uid)
                      /\ pc'[s] \in WriteOnly
                           => IsWrite(s)
    BY DEF Progress, IsWrite, Both
  <2>1. CASE s = r
    BY <1>1, <2>1 DEF Inv, Progress
  <2>2. CASE s # r
    BY <1>1, <2>2 DEF Inv, Progress
  <2> QED BY <2>1, <2>2
<1>3. Stream'
  <2> SUFFICES ASSUME NEW i \in 1 .. Len(tcpUp)
               PROVE  pc'[tcpUp[i]] = "none"
    BY DEF Inv, Stream
  <2>1. tcpUp[i] \in Rid /\ pc[tcpUp[i]] = "none"
    BY DEF Inv, TypeOK, Stream
  <2> QED BY <1>1, <2>1
<1> QED BY <1>2, <1>3

(* The conjuncts that no step of the kernel or the reactor's select, and   *)
(* no bookkeeping of a timer thread, touches.                              *)
LEMMA CoreFrame ==
  ASSUME Inv, UNCHANGED <<rmVars, net, inbox, uid, stored, req, seen, reply>>
  PROVE  /\ Uids' /\ Datagrams' /\ Watchlist' /\ OnlyRegistered'
         /\ Seen' /\ SuccessMeansReplicated'
BY DEF Inv, rmVars, Uids, Datagrams, DatagramOK, Watchlist, OnlyRegistered, Seen,
       SuccessMeansReplicated, HasResponse, IsWrite, Stored

(* What a command sends to a minion describes the command.                 *)
LEMMA RequestOK ==
  ASSUME Inv, NEW r \in Rid, NEW c \in Copies, uid[r][c] \in Uid,
         pc[r] # "none", IsWrite(r) \/ c = "og"
  PROVE  Request2Minion(r, c) \in Datagram /\ DatagramOK(Request2Minion(r, c))
<1> DEFINE d == Request2Minion(r, c)
<1>1. /\ d.uid = uid[r][c] /\ d.type = IF IsWrite(r) THEN "WriteMsg" ELSE "ReadMsg"
      /\ d.place = PlaceOf(c, req[r].offset) /\ d.data = req[r].data
  BY DEF Request2Minion, Message
<1>2. d \in Datagram
  <2>1. req[r] \in Request
    BY DEF Inv, Progress
  <2>2. req[r].offset \in Blocks /\ req[r].data \in Values
    BY <2>1 DEF Request
  <2>3. PlaceOf(c, req[r].offset) \in Places
    BY <2>2, PlaceType
  <2> QED BY <2>2, <2>3 DEF Datagram, Request2Minion, Message
<1>3. DatagramOK(d)
  <2>1. d.uid < m_static_counter
    BY <1>1 DEF Inv, Uids
  <2>2. ASSUME NEW s \in Rid, NEW e \in Copies, uid[s][e] = d.uid
        PROVE  s = r /\ e = c
    BY <1>1, <2>2 DEF Inv, Uids, Uid
  <2> HIDE DEF d
  <2> QED BY <1>1, <2>1, <2>2 DEF DatagramOK
<1> QED BY <1>2, <1>3

(* MinionProxy::ReadRequest and WriteRequest: the original, the backup.    *)
LEMMA SendInv ==
  ASSUME Inv, NEW r \in Rid, SendOg(r) \/ SendBackup(r)
  PROVE  Inv'
<1>1. PICK c \in Copies, p \in {"sendBackup", "sched"} :
        /\ pc[r] = IF c = "og" THEN "sendOg" ELSE "sendBackup"
        /\ p = "sendBackup" => IsWrite(r)
        /\ net' = net \cup {Request2Minion(r, c)}
        /\ pc' = [pc EXCEPT ![r] = p]
        /\ UNCHANGED <<dups, lost, rmVars, storeVars, kernelVars, tcpVars, reactVars, aiVars,
                       uid, stored>>
  <2>1. CASE SendOg(r)
    <3>1. CASE IsWrite(r)
      BY <2>1, <3>1 DEF SendOg, Send, Copies
    <3>2. CASE ~IsWrite(r)
      BY <2>1, <3>2 DEF SendOg, Send, Copies
    <3> QED BY <3>1, <3>2
  <2>2. CASE SendBackup(r)
    BY <2>2 DEF SendBackup, Send, Copies
  <2> QED BY <2>1, <2>2
<1> DEFINE d == Request2Minion(r, c)
<1>2. d \in Datagram /\ DatagramOK(d)
  <2>1. uid[r][c] \in Uid /\ (IsWrite(r) \/ c = "og") /\ pc[r] # "none"
    BY <1>1 DEF Inv, Progress, Copies, WriteOnly
  <2> QED BY <2>1, RequestOK
<1> HIDE DEF d
<1>3. Progress' /\ Stream'
  <2>1. p \in PCs \ {"none", "queued"} /\ pc[r] \notin {"none", "queued"}
    BY <1>1 DEF PCs
  <2>2. p \in WriteOnly => IsWrite(r)
    BY <1>1 DEF WriteOnly, Counting, Ending
  <2> QED BY <1>1, <2>1, <2>2, CommandStep DEF kernelVars, tcpVars, aiVars
<1>4. TypeOK'
  <2>1. net' \subseteq Datagram
    BY <1>1, <1>2 DEF Inv, TypeOK, d
  <2>2. pc' \in [Rid -> PCs]
    BY <1>1 DEF Inv, TypeOK, PCs
  <2> QED BY <1>1, <2>1, <2>2 DEF Inv, TypeOK, RMTypeOK, StoreTypeOK,
          rmVars, storeVars, kernelVars, tcpVars, reactVars, aiVars
<1>5. Datagrams'
  <2>1. \A x \in net' : DatagramOK(x)
    BY <1>1, <1>2 DEF Inv, Datagrams, d
  <2> QED BY <1>1, <2>1 DEF Inv, Datagrams, DatagramOK, IsWrite, Stored,
                            rmVars, kernelVars, reactVars
<1>6. Uids' /\ Watchlist' /\ OnlyRegistered' /\ Seen' /\ SuccessMeansReplicated'
  BY <1>1 DEF Inv, Uids, Watchlist, OnlyRegistered, Seen, SuccessMeansReplicated,
              HasResponse, IsWrite, Stored, rmVars, kernelVars, aiVars
<1> QED BY <1>3, <1>4, <1>5, <1>6 DEF Inv

(* NBDRead and NBDWrite send a request: no command knows of it yet.        *)
LEMMA IssueInv ==
  ASSUME Inv, NEW q \in Requests, Issue(q)
  PROVE  Inv'
<1> DEFINE n == issued + 1
<1>1. /\ issued < MaxRequests /\ issued' = n
      /\ req' = [req EXCEPT ![n] = q] /\ tcpUp' = Append(tcpUp, n)
      /\ nbd' \in {"idle", "recv"}
      /\ UNCHANGED <<rmVars, netVars, storeVars, reactVars, aiVars, pc, uid, stored,
                     tcpDown, outcome, short>>
  BY DEF Issue
<1>2. n \in Rid /\ q \in Request /\ n > issued
  BY <1>1, DriveAssumption DEF Inv, TypeOK, Rid
<1> HIDE DEF n
<1>3. /\ pc[n] = "none" /\ seen[n] = Both(FALSE) /\ reply[n] = "none"
      /\ uid[n] = Both(0)
  BY <1>2 DEF Inv, Progress
<1>4. req'[n] = q /\ \A s \in Rid \ {n} : req'[s] = req[s]
  BY <1>1, <1>2 DEF Inv, TypeOK
<1>5. TypeOK'
  <2>1. issued' \in 0 .. MaxRequests
    BY <1>1, <1>2 DEF Rid
  <2>2. req' \in [Rid -> Request \cup {NoRequest}]
    BY <1>1, <1>2 DEF Inv, TypeOK
  <2>3. tcpUp' \in Seq(Rid)
    BY <1>1, <1>2 DEF Inv, TypeOK
  <2> QED BY <1>1, <2>1, <2>2, <2>3 DEF Inv, TypeOK, RMTypeOK, StoreTypeOK,
          rmVars, netVars, storeVars, reactVars, aiVars
<1>6. Progress'
  <2> SUFFICES ASSUME NEW s \in Rid
               PROVE  /\ s > issued' => pc[s] = "none"
                      /\ pc[s] # "none" => req'[s] \in Request
                      /\ pc[s] \in {"none", "queued"} =>
                           uid[s] = Both(0) /\ seen[s] = Both(FALSE) /\ reply[s] = "none"
                      /\ pc[s] \notin {"none", "queued"} =>
                           uid[s]["og"] \in Uid
                           /\ (req'[s].op = "write" => uid[s]["backup"] \in Uid)
                      /\ pc[s] \in WriteOnly
                           => req'[s].op = "write"
    BY <1>1 DEF Progress, IsWrite, Both, aiVars
  <2>1. CASE s = n
    BY <1>2, <1>3, <1>4, <2>1 DEF Inv, Progress, WriteOnly, Counting, Ending
  <2>2. CASE s # n
    <3>1. s > issued' => s > issued
      BY <1>1, <1>2 DEF n, Rid, Inv, TypeOK
    <3> QED BY <1>4, <2>2, <3>1 DEF Inv, Progress, IsWrite
  <2> QED BY <2>1, <2>2
<1>7. Stream'
  <2>1. /\ Len(tcpUp) \in Nat /\ Len(tcpUp') = Len(tcpUp) + 1
        /\ tcpUp'[Len(tcpUp) + 1] = n
        /\ \A i \in 1 .. Len(tcpUp) : tcpUp'[i] = tcpUp[i]
    BY <1>1 DEF Inv, TypeOK
  <2>2. ASSUME NEW i \in 1 .. Len(tcpUp)
        PROVE  tcpUp[i] \in Rid /\ tcpUp[i] <= issued /\ tcpUp[i] # n
    <3>1. tcpUp[i] \in Rid /\ tcpUp[i] <= issued
      BY <2>2 DEF Inv, TypeOK, Stream
    <3>2. issued \in Int /\ tcpUp[i] \in Int
      BY <3>1 DEF Inv, TypeOK, Rid
    <3> QED BY <1>2, <3>1, <3>2
  <2>3. ASSUME NEW i \in 1 .. Len(tcpUp')
        PROVE  tcpUp'[i] <= issued' /\ pc[tcpUp'[i]] = "none" /\ req'[tcpUp'[i]] \in Request
    <3>1. CASE i = Len(tcpUp) + 1
      BY <1>1, <1>2, <1>3, <1>4, <2>1, <3>1 DEF Rid
    <3>2. CASE i \in 1 .. Len(tcpUp)
      <4>1. tcpUp[i] <= issued'
        BY <1>1, <2>2, <3>2 DEF n, Inv, TypeOK, Rid
      <4> QED BY <1>4, <2>1, <2>2, <3>2, <4>1 DEF Inv, Stream
    <3> QED BY <2>1, <3>1, <3>2
  <2>4. ASSUME NEW i \in 1 .. Len(tcpUp'), NEW j \in 1 .. Len(tcpUp'), tcpUp'[i] = tcpUp'[j]
        PROVE  i = j
    <3>1. CASE i \in 1 .. Len(tcpUp) /\ j \in 1 .. Len(tcpUp)
      BY <2>1, <2>4, <3>1 DEF Inv, Stream
    <3> QED BY <2>1, <2>2, <2>4, <3>1
  <2> QED BY <1>1, <2>3, <2>4 DEF Stream
<1>8. \A s \in Rid, c \in Copies : uid[s][c] # 0 \/ seen[s][c] \/ reply[s] = "Success"
        => s # n
  BY <1>3 DEF Both
<1>9. \A s \in Rid, c \in Copies : s # n => Stored(s, c)' = Stored(s, c)
  BY <1>1, <1>4 DEF Stored
<1>10. \A d \in Datagram : DatagramOK(d) => DatagramOK(d)'
  <2> SUFFICES ASSUME NEW d \in Datagram, DatagramOK(d) PROVE DatagramOK(d)'
    OBVIOUS
  <2>1. d.uid # 0
    BY DEF Datagram, Uid
  <2>2. \A s \in Rid, c \in Copies : uid[s][c] = d.uid =>
          /\ req'[s] = req[s]
          /\ Stored(s, c)' = Stored(s, c)
    BY <1>4, <1>8, <1>9, <2>1
  <2> QED BY <1>1, <2>2 DEF DatagramOK, IsWrite, rmVars
<1>11. Datagrams'
  <2>1. net' = net /\ inbox' = inbox
    BY <1>1 DEF netVars, reactVars
  <2>2. \A d \in net : d \in Datagram
    BY DEF Inv, TypeOK
  <2>3. \A i \in 1 .. Len(inbox) : inbox[i] \in Datagram
    BY DEF Inv, TypeOK
  <2>4. \A d \in net : DatagramOK(d)'
    BY <1>10, <2>2 DEF Inv, Datagrams
  <2>5. \A i \in 1 .. Len(inbox) : DatagramOK(inbox[i])' /\ ~ToMinion(inbox[i])
    BY <1>10, <2>1, <2>3 DEF Inv, Datagrams
  <2> QED BY <2>1, <2>4, <2>5 DEF Datagrams, ToMinion
<1>12. Uids' /\ OnlyRegistered'
  BY <1>1 DEF Inv, Uids, OnlyRegistered, HasResponse, rmVars
<1>13. Watchlist' /\ Seen' /\ SuccessMeansReplicated'
  BY <1>1, <1>4, <1>8, <1>9 DEF Inv, Watchlist, Seen, SuccessMeansReplicated, HasResponse,
                                IsWrite, rmVars, aiVars
<1> QED BY <1>5, <1>6, <1>7, <1>11, <1>12, <1>13 DEF Inv

(* Recive takes a prefix of the stream.                                    *)
LEMMA CompleteInv ==
  ASSUME Inv, Complete
  PROVE  Inv'
<1>1. PICK n \in 1 .. Available :
      /\ n < Available => short < MaxShort
      /\ short' = IF n < Available THEN short + 1 ELSE short
      /\ outcome' = [outcome EXCEPT ![issued] = SubSeq(tcpDown, 1, n)]
      /\ tcpDown' = SubSeq(tcpDown, n + 1, Len(tcpDown))
      /\ nbd' \in {"idle", "recv"}
      /\ UNCHANGED <<rmVars, netVars, storeVars, reactVars, aiVars, pc, uid, stored,
                     tcpUp, issued, req>>
  BY DEF Complete
<1>2. SubSeq(tcpDown, 1, n) \in Seq(Unit) /\ SubSeq(tcpDown, n + 1, Len(tcpDown)) \in Seq(Unit)
  <2>1. tcpDown \in Seq(Unit) /\ Len(tcpDown) \in Nat /\ n \in Nat /\ n <= Len(tcpDown)
    BY DriveAssumption DEF Inv, TypeOK, Available
  <2>2. \A i \in 1 .. n : tcpDown[i] \in Unit
    BY <2>1
  <2>3. \A i \in (n + 1) .. Len(tcpDown) : tcpDown[i] \in Unit
    BY <2>1
  <2> QED BY <2>1, <2>2, <2>3, SubSeqProperties
<1>3. TypeOK'
  <2>2. short' \in 0 .. MaxShort
    BY <1>1, DriveAssumption DEF Inv, TypeOK
  <2>1. outcome' \in [Rid -> Seq(Unit)] /\ tcpDown' \in Seq(Unit)
    BY <1>1, <1>2 DEF Inv, TypeOK
  <2> QED BY <1>1, <2>1, <2>2 DEF Inv, TypeOK, RMTypeOK, StoreTypeOK,
          rmVars, netVars, storeVars, reactVars, aiVars
<1>4. Progress' /\ Stream'
  BY <1>1 DEF Inv, Progress, Stream, IsWrite, aiVars
<1> QED BY <1>1, <1>3, <1>4, CoreFrame DEF Inv, netVars, reactVars, aiVars

(* FDListen::Listen.                                                       *)
LEMMA SelectInv ==
  ASSUME Inv, Select \/ Interrupted
  PROVE  Inv'
<1>1. /\ todo' \subseteq Fds /\ interrupts' \in 0 .. MaxInterrupts
      /\ UNCHANGED <<rmVars, netVars, storeVars, kernelVars, tcpVars, aiVars, pc, uid,
                     stored, inbox, confirmed>>
  BY DriveAssumption DEF Inv, TypeOK, Select, Interrupted, Ready
<1>2. TypeOK'
  BY <1>1 DEF Inv, TypeOK, RMTypeOK, StoreTypeOK, rmVars, netVars, storeVars, kernelVars,
              tcpVars, aiVars
<1>3. Progress' /\ Stream'
  BY <1>1 DEF Inv, Progress, Stream, IsWrite, kernelVars, tcpVars, aiVars
<1> QED BY <1>1, <1>2, <1>3, CoreFrame DEF Inv, netVars, kernelVars, aiVars


(* NBDProxy::GetArgsKey: the first request of the stream becomes a command. *)
LEMMA HandleNBDInv ==
  ASSUME Inv, HandleNBD
  PROVE  Inv'
<1> DEFINE r == Head(tcpUp)
<1>1. /\ tcpUp # <<>> /\ todo' = todo \ {"nbd"} /\ tcpUp' = Tail(tcpUp)
      /\ pc' = [pc EXCEPT ![r] = "queued"]
      /\ UNCHANGED <<rmVars, netVars, storeVars, kernelVars, aiVars, uid, stored,
                     tcpDown, interrupts, inbox, confirmed>>
  BY DEF HandleNBD
<1>2. /\ tcpUp \in Seq(Rid) /\ Len(tcpUp) \in Nat /\ Len(tcpUp) > 0
      /\ r = tcpUp[1] /\ r \in Rid
  BY <1>1 DEF Inv, TypeOK
<1>3. /\ Tail(tcpUp) \in Seq(Rid) /\ Len(Tail(tcpUp)) = Len(tcpUp) - 1
      /\ \A i \in 1 .. Len(Tail(tcpUp)) : Tail(tcpUp)[i] = tcpUp[i + 1]
  BY <1>1, <1>2, HeadTailProperties
<1>4. pc[r] = "none" /\ r <= issued /\ req[r] \in Request
  BY <1>2 DEF Inv, Stream
<1> HIDE DEF r
<1>5. pc'[r] = "queued" /\ \A s \in Rid \ {r} : pc'[s] = pc[s]
  BY <1>1, <1>2 DEF Inv, TypeOK
<1>6. TypeOK'
  <2>1. pc' \in [Rid -> PCs] /\ todo' \subseteq Fds
    BY <1>1 DEF Inv, TypeOK, PCs
  <2> QED BY <1>1, <1>3, <2>1 DEF Inv, TypeOK, RMTypeOK, StoreTypeOK,
          rmVars, netVars, storeVars, kernelVars, aiVars
<1>7. Progress'
  <2> SUFFICES ASSUME NEW s \in Rid
               PROVE  /\ s > issued => pc'[s] = "none"
                      /\ pc'[s] # "none" => req[s] \in Request
                      /\ pc'[s] \in {"none", "queued"} =>
                           uid[s] = Both(0) /\ seen[s] = Both(FALSE) /\ reply[s] = "none"
                      /\ pc'[s] \notin {"none", "queued"} =>
                           uid[s]["og"] \in Uid /\ (IsWrite(s) => uid[s]["backup"] \in Uid)
                      /\ pc'[s] \in WriteOnly
                           => IsWrite(s)
    BY <1>1 DEF Progress, IsWrite, Both, kernelVars, aiVars
  <2>1. CASE s = r
    <3>1. ~(r > issued)
      BY <1>2, <1>4 DEF Inv, TypeOK, Rid
    <3> QED BY <1>4, <1>5, <2>1, <3>1 DEF Inv, Progress, WriteOnly, Counting, Ending
  <2>2. CASE s # r
    BY <1>5, <2>2 DEF Inv, Progress
  <2> QED BY <2>1, <2>2
<1>8. Stream'
  <2>1. ASSUME NEW i \in 1 .. Len(Tail(tcpUp))
        PROVE  /\ i + 1 \in 1 .. Len(tcpUp) /\ tcpUp'[i] = tcpUp[i + 1]
               /\ tcpUp[i + 1] \in Rid /\ tcpUp[i + 1] # r
    <3>1. i + 1 \in 1 .. Len(tcpUp) /\ i + 1 # 1 /\ 1 \in 1 .. Len(tcpUp)
      BY <1>2, <1>3
    <3>2. tcpUp[i + 1] # tcpUp[1]
      BY <3>1 DEF Inv, Stream
    <3> QED BY <1>1, <1>2, <1>3, <3>1, <3>2
  <2>2. ASSUME NEW i \in 1 .. Len(Tail(tcpUp)), NEW j \in 1 .. Len(Tail(tcpUp)),
               tcpUp'[i] = tcpUp'[j]
        PROVE  i = j
    <3>1. i + 1 \in 1 .. Len(tcpUp) /\ j + 1 \in 1 .. Len(tcpUp) /\ tcpUp[i + 1] = tcpUp[j + 1]
      BY <2>1, <2>2
    <3>2. i + 1 = j + 1
      BY <3>1 DEF Inv, Stream
    <3> QED BY <3>2
  <2>3. ASSUME NEW i \in 1 .. Len(Tail(tcpUp))
        PROVE  tcpUp'[i] <= issued /\ pc'[tcpUp'[i]] = "none" /\ req[tcpUp'[i]] \in Request
    BY <1>5, <2>1 DEF Inv, Stream
  <2> QED BY <1>1, <2>2, <2>3 DEF Stream, kernelVars
<1> QED BY <1>1, <1>6, <1>7, <1>8, CoreFrame DEF Inv, netVars, kernelVars, aiVars

(* NotifySucces appends units of the stream.                               *)
LEMMA NotifyType ==
  ASSUME NEW r \in Rid, NEW val \in Values \cup Replies, NEW n \in Nat,
         tcpDown \in Seq(Unit), NotifySucces(r, val, n)
  PROVE  tcpDown' \in Seq(Unit)
<1> DEFINE u == [i \in 1 .. n |-> [of |-> r, val |-> val]]
<1>1. [of |-> r, val |-> val] \in Unit
  BY DEF Unit
<1>2. u \in Seq(Unit)
  BY <1>1
<1> HIDE DEF u
<1>3. tcpDown \o u \in Seq(Unit)
  BY <1>2
<1> QED BY <1>3 DEF NotifySucces, u

(* ResponseProxy::GetArgsKey: a write becomes DONE only because a minion   *)
(* has answered it.                                                        *)
LEMMA HandleUDPInv ==
  ASSUME Inv, HandleUDP
  PROVE  Inv'
<1> DEFINE d == Head(inbox)
<1>1. /\ inbox # <<>> /\ todo' = todo \ {"udp"} /\ inbox' = Tail(inbox)
      /\ m_watchlist' = [m_watchlist EXCEPT ![d.uid] = "DONE"]
      /\ confirmed' = confirmed \cup {d.uid}
      /\ UNCHANGED <<m_static_counter, netVars, storeVars, kernelVars, aiVars, pc, uid,
                     stored, tcpUp, interrupts>>
      /\ \/ NotifySucces(Owner(d.uid), d.data, BlockLen)
         \/ UNCHANGED tcpDown
  BY DEF HandleUDP, RegisterResponse
<1>2. /\ inbox \in Seq(Datagram) /\ Len(inbox) \in Nat /\ Len(inbox) > 0
      /\ d = inbox[1] /\ d \in Datagram
  BY <1>1 DEF Inv, TypeOK
<1>3. /\ Tail(inbox) \in Seq(Datagram) /\ Len(Tail(inbox)) = Len(inbox) - 1
      /\ \A i \in 1 .. Len(Tail(inbox)) : Tail(inbox)[i] = inbox[i + 1]
  BY <1>1, <1>2, HeadTailProperties
<1>4. DatagramOK(d) /\ ~ToMinion(d)
  BY <1>2 DEF Inv, Datagrams
<1> HIDE DEF d
<1>5. d.uid \in Uid /\ d.data \in Values
      /\ d.type \in {"ReadMsg", "WriteMsg", "MinionReadMsg", "MinionWriteMsg"}
  BY <1>2 DEF Datagram
<1>6. \A u \in Uid : m_watchlist'[u] = IF u = d.uid THEN "DONE" ELSE m_watchlist[u]
  BY <1>1, <1>5 DEF Inv, TypeOK, RMTypeOK
<1>7. TypeOK'
  <2>1. tcpDown' \in Seq(Unit)
    <3>1. Owner(d.uid) \in Rid
      <4>1. \E r \in Rid : \E c \in Copies : uid[r][c] = d.uid
        BY <1>4, <1>5 DEF Inv, Uids, DatagramOK
      <4> QED BY <4>1 DEF Owner
    <3>2. tcpDown \in Seq(Unit) /\ BlockLen \in Nat
      BY DriveAssumption DEF Inv, TypeOK
    <3>3. CASE NotifySucces(Owner(d.uid), d.data, BlockLen)
      BY <1>5, <3>1, <3>2, <3>3, NotifyType
    <3>4. CASE UNCHANGED tcpDown
      BY <3>2, <3>4
    <3> QED BY <1>1, <3>3, <3>4
  <2>2. RMTypeOK'
    BY <1>1 DEF Inv, TypeOK, RMTypeOK, Status
  <2>3. confirmed' \subseteq Uid /\ todo' \subseteq Fds
    BY <1>1, <1>5 DEF Inv, TypeOK
  <2> QED BY <1>1, <1>3, <2>1, <2>2, <2>3 DEF Inv, TypeOK, StoreTypeOK,
          netVars, storeVars, kernelVars, aiVars
<1>8. Progress' /\ Stream'
  BY <1>1 DEF Inv, Progress, Stream, IsWrite, kernelVars, aiVars
<1>9. \A x \in Datagram : DatagramOK(x) => DatagramOK(x)'
  BY <1>1 DEF DatagramOK, IsWrite, Stored, kernelVars
<1>10. Datagrams'
  <2>1. \A x \in net : DatagramOK(x)'
    BY <1>9 DEF Inv, TypeOK, Datagrams
  <2>2. ASSUME NEW i \in 1 .. Len(Tail(inbox))
        PROVE  DatagramOK(inbox[i])' /\ ~ToMinion(inbox[i])'
    <3>1. i + 1 \in 1 .. Len(inbox) /\ inbox'[i] = inbox[i + 1]
      BY <1>1, <1>2, <1>3
    <3>2. inbox[i + 1] \in Datagram /\ DatagramOK(inbox[i + 1]) /\ ~ToMinion(inbox[i + 1])
      BY <1>2, <3>1 DEF Inv, Datagrams
    <3> QED BY <1>1, <3>1, <3>2 DEF DatagramOK, IsWrite, Stored, ToMinion, kernelVars
  <2> QED BY <1>1, <2>1, <2>2 DEF Datagrams, netVars
<1>11. Watchlist'
  <2> SUFFICES ASSUME NEW r \in Rid, NEW c \in Copies,
                      uid[r][c] # 0, IsWrite(r), m_watchlist'[uid[r][c]] = "DONE"
               PROVE  Stored(r, c)
    BY <1>1 DEF Watchlist, IsWrite, HasResponse, Stored, kernelVars
  <2>1. uid[r][c] \in Uid
    BY DEF Inv, TypeOK, Uid
  <2>2. CASE uid[r][c] = d.uid
    BY <1>4, <1>5, <2>2 DEF DatagramOK, ToMinion
  <2>3. CASE uid[r][c] # d.uid
    BY <1>6, <2>1, <2>3 DEF Inv, Watchlist, HasResponse
  <2> QED BY <2>2, <2>3
<1>12. Uids' /\ OnlyRegistered'
  BY <1>1, <1>4, <1>6 DEF Inv, Uids, OnlyRegistered, HasResponse, DatagramOK
<1>13. Seen' /\ SuccessMeansReplicated'
  BY <1>1 DEF Inv, Seen, SuccessMeansReplicated, Stored, kernelVars, aiVars
<1> QED BY <1>7, <1>8, <1>10, <1>11, <1>12, <1>13 DEF Inv


(* RegisterCommand hands out uids that nothing in the system carries yet.  *)
LEMMA RegisterInv ==
  ASSUME Inv, NEW r \in Rid, Register(r)
  PROVE  Inv'
<1> DEFINE n == IF IsWrite(r) THEN 2 ELSE 1
           m == m_static_counter
<1>1. /\ pc[r] = "queued" /\ m + n <= MaxUid + 1 /\ m_static_counter' = m + n
      /\ m_watchlist' = [u \in Uid |-> IF u \in m .. (m + n - 1)
                                       THEN "PROCESSING_REQUEST" ELSE m_watchlist[u]]
      /\ uid' = [uid EXCEPT ![r] = [c \in Copies |->
                   IF c = "og" THEN m ELSE IF IsWrite(r) THEN m + 1 ELSE 0]]
      /\ pc' = [pc EXCEPT ![r] = "sendOg"]
      /\ UNCHANGED <<netVars, storeVars, kernelVars, tcpVars, reactVars, aiVars, stored>>
  BY DEF Register, RegisterCommands
<1>2. m \in Nat /\ m >= 1 /\ n \in 1 .. 2 /\ MaxUid \in Nat /\ (IsWrite(r) <=> n = 2)
  BY ResponseManagerAssumption DEF Inv, TypeOK, RMTypeOK
<1> HIDE DEF m, n
<1>3. /\ uid'[r]["og"] = m
      /\ uid'[r]["backup"] = IF IsWrite(r) THEN m + 1 ELSE 0
      /\ \A s \in Rid \ {r} : uid'[s] = uid[s]
  BY <1>1 DEF Inv, TypeOK, Copies
<1>4. /\ uid[r] = Both(0) /\ seen[r] = Both(FALSE) /\ reply[r] = "none"
      /\ req[r] \in Request
  BY <1>1 DEF Inv, Progress
<1>5. pc'[r] = "sendOg" /\ \A s \in Rid \ {r} : pc'[s] = pc[s]
  BY <1>1 DEF Inv, TypeOK
<1>6. m \in Uid /\ (IsWrite(r) => m + 1 \in Uid)
  BY <1>1, <1>2 DEF Uid
<1>7. TypeOK'
  <2>1. RMTypeOK'
    <3>1. m_static_counter' \in 1 .. (MaxUid + 1)
      BY <1>1, <1>2
    <3>2. m_watchlist' \in [Uid -> Status]
      BY <1>1 DEF Inv, TypeOK, RMTypeOK, Status
    <3> QED BY <3>1, <3>2 DEF RMTypeOK
  <2>2. uid' \in [Rid -> [Copies -> 0 .. MaxUid]]
    <3>1. [c \in Copies |-> IF c = "og" THEN m ELSE IF IsWrite(r) THEN m + 1 ELSE 0]
            \in [Copies -> 0 .. MaxUid]
      BY <1>2, <1>6 DEF Uid
    <3> QED BY <1>1, <3>1 DEF Inv, TypeOK
  <2>3. pc' \in [Rid -> PCs]
    BY <1>1 DEF Inv, TypeOK, PCs
  <2> QED BY <1>1, <2>1, <2>2, <2>3 DEF Inv, TypeOK, StoreTypeOK,
          netVars, storeVars, kernelVars, tcpVars, reactVars, aiVars
<1>8. Progress'
  <2> SUFFICES ASSUME NEW s \in Rid
               PROVE  /\ s > issued => pc'[s] = "none"
                      /\ pc'[s] # "none" => req[s] \in Request
                      /\ pc'[s] \in {"none", "queued"} =>
                           uid'[s] = Both(0) /\ seen[s] = Both(FALSE) /\ reply[s] = "none"
                      /\ pc'[s] \notin {"none", "queued"} =>
                           uid'[s]["og"] \in Uid /\ (IsWrite(s) => uid'[s]["backup"] \in Uid)
                      /\ pc'[s] \in WriteOnly
                           => IsWrite(s)
    BY <1>1 DEF Progress, IsWrite, Both, kernelVars, aiVars
  <2>1. CASE s = r
    <3>1. ~(r > issued)
      BY <1>1 DEF Inv, Progress
    <3> QED BY <1>3, <1>4, <1>5, <1>6, <2>1, <3>1 DEF WriteOnly, Counting, Ending
  <2>2. CASE s # r
    BY <1>3, <1>5, <2>2 DEF Inv, Progress
  <2> QED BY <2>1, <2>2
<1>9. Stream'
  <2> SUFFICES ASSUME NEW i \in 1 .. Len(tcpUp)
               PROVE  pc'[tcpUp[i]] = "none"
    BY <1>1 DEF Inv, Stream, kernelVars, tcpVars
  <2>1. tcpUp[i] \in Rid /\ pc[tcpUp[i]] = "none"
    BY DEF Inv, TypeOK, Stream
  <2> QED BY <1>1, <1>5, <2>1
<1>10. \A s \in Rid, c \in Copies : uid[s][c] \in Nat /\ uid[s][c] < m
  BY DEF Inv, TypeOK, Uids, m
<1>11. \A c \in Copies : uid'[r][c] = 0 \/ (uid'[r][c] >= m /\ uid'[r][c] < m + n)
  BY <1>2, <1>3 DEF Copies
<1>12. Uids'
  <2>1. \A s \in Rid, c \in Copies : uid'[s][c] < m + n
    BY <1>2, <1>3, <1>10, <1>11
  <2>2. ASSUME NEW u \in Uid, u < m + n
        PROVE  \E s \in Rid, c \in Copies : uid'[s][c] = u
    <3>1. CASE u < m
      <4>1. PICK s \in Rid, c \in Copies : uid[s][c] = u
        BY <3>1 DEF Inv, Uids, m
      <4>2. s # r
        BY <1>4, <4>1 DEF Both, Uid
      <4> QED BY <1>3, <4>1, <4>2
    <3>2. CASE u = m
      BY <1>3, <3>2 DEF Copies
    <3>3. CASE u = m + 1 /\ IsWrite(r)
      BY <1>3, <3>3 DEF Copies
    <3>4. u < m \/ u = m \/ (u = m + 1 /\ IsWrite(r))
      BY <1>2, <2>2 DEF Uid
    <3> QED BY <3>1, <3>2, <3>3, <3>4
  <2>3. ASSUME NEW s \in Rid, NEW t \in Rid, NEW c \in Copies, NEW e \in Copies,
               uid'[s][c] = uid'[t][e], uid'[s][c] # 0
        PROVE  s = t /\ c = e
    <3>1. CASE s = r /\ t = r
      BY <1>2, <1>3, <2>3, <3>1 DEF Copies
    <3>2. CASE s # r /\ t # r
      BY <1>3, <2>3, <3>2 DEF Inv, Uids
    <3>3. CASE s = r /\ t # r
      BY <1>2, <1>3, <1>10, <1>11, <2>3, <3>3
    <3>4. CASE s # r /\ t = r
      BY <1>2, <1>3, <1>10, <1>11, <2>3, <3>4
    <3> QED BY <3>1, <3>2, <3>3, <3>4
  <2> QED BY <1>1, <2>1, <2>2, <2>3 DEF Uids
<1>13. \A s \in Rid, c \in Copies : s # r => Stored(s, c)' = Stored(s, c)
  BY <1>1, <1>3 DEF Stored, kernelVars
<1>14. \A d \in Datagram : DatagramOK(d) => DatagramOK(d)'
  <2> SUFFICES ASSUME NEW d \in Datagram, DatagramOK(d) PROVE DatagramOK(d)'
    OBVIOUS
  <2>1. d.uid \in Nat /\ d.uid # 0 /\ d.uid < m
    BY DEF Datagram, Uid, DatagramOK, m
  <2>2. \A s \in Rid, c \in Copies : uid'[s][c] = d.uid =>
          s # r /\ uid[s][c] = d.uid /\ Stored(s, c)' = Stored(s, c)
    BY <1>2, <1>3, <1>11, <1>13, <2>1
  <2>3. d.uid < m_static_counter'
    BY <1>1, <1>2, <2>1
  <2> QED BY <1>1, <2>2, <2>3 DEF DatagramOK, IsWrite, kernelVars
<1>15. Datagrams'
  <2>1. net' = net /\ inbox' = inbox
    BY <1>1 DEF netVars, reactVars
  <2>2. \A d \in net : DatagramOK(d)'
    BY <1>14 DEF Inv, TypeOK, Datagrams
  <2>3. \A i \in 1 .. Len(inbox) : inbox[i] \in Datagram
    BY DEF Inv, TypeOK
  <2>4. \A i \in 1 .. Len(inbox) : DatagramOK(inbox[i])' /\ ~ToMinion(inbox[i])
    BY <1>14, <2>1, <2>3 DEF Inv, Datagrams
  <2> QED BY <2>1, <2>2, <2>4 DEF Datagrams, ToMinion
<1>16. \A u \in Uid : m_watchlist'[u] = "DONE" => m_watchlist[u] = "DONE" /\ u < m
  <2> TAKE u \in Uid
  <2>1. m_watchlist'[u] = "DONE" => m_watchlist[u] = "DONE"
    BY <1>1
  <2> QED BY <2>1 DEF Inv, OnlyRegistered, HasResponse, m
<1>17. OnlyRegistered'
  BY <1>1, <1>2, <1>16 DEF OnlyRegistered, HasResponse, Uid
<1>18. Watchlist'
  <2> SUFFICES ASSUME NEW s \in Rid, NEW c \in Copies, uid'[s][c] # 0, IsWrite(s),
                      m_watchlist'[uid'[s][c]] = "DONE"
               PROVE  Stored(s, c)'
    BY <1>1 DEF Watchlist, HasResponse, IsWrite, kernelVars
  <2>1. uid'[s][c] \in Uid
    BY <1>7 DEF TypeOK, Uid
  <2>2. uid'[s][c] < m /\ m_watchlist[uid'[s][c]] = "DONE"
    BY <1>16, <2>1
  <2>3. s # r
    BY <1>2, <1>11, <2>1, <2>2 DEF Uid
  <2> QED BY <1>3, <1>13, <2>2, <2>3 DEF Inv, Watchlist, HasResponse
<1>19. Seen' /\ SuccessMeansReplicated'
  <2>1. \A s \in Rid, c \in Copies : seen[s][c] \/ reply[s] = "Success" => s # r
    BY <1>4 DEF Both
  <2> QED BY <1>1, <1>13, <2>1 DEF Inv, Seen, SuccessMeansReplicated, aiVars
<1> QED BY <1>7, <1>8, <1>9, <1>12, <1>15, <1>17, <1>18, <1>19 DEF Inv


(* Erasing an entry of the watch list only forgets.                        *)
LEMMA ErasedEntry ==
  ASSUME Inv, NEW u \in Uid,
         m_watchlist' = [m_watchlist EXCEPT ![u] = "PROCESSING_REQUEST"],
         UNCHANGED <<m_static_counter, net, inbox, uid, stored, req>>
  PROVE  RMTypeOK' /\ Uids' /\ Datagrams' /\ Watchlist' /\ OnlyRegistered'
<1>1. \A x \in Uid : m_watchlist'[x] = "DONE" => m_watchlist[x] = "DONE"
  BY DEF Inv, TypeOK, RMTypeOK
<1>2. RMTypeOK'
  BY DEF Inv, TypeOK, RMTypeOK, Status
<1>3. Uids' /\ Datagrams'
  BY DEF Inv, Uids, Datagrams, DatagramOK, IsWrite, Stored
<1>4. OnlyRegistered'
  BY <1>1 DEF Inv, OnlyRegistered, HasResponse
<1>5. \A r \in Rid, c \in Copies : uid[r][c] # 0 => uid[r][c] \in Uid
  BY DEF Inv, TypeOK, Uid
<1>6. Watchlist'
  BY <1>1, <1>5 DEF Inv, Watchlist, HasResponse, IsWrite, Stored
<1> QED BY <1>2, <1>3, <1>4, <1>6

(* ReadAIFunc.                                                             *)
LEMMA ReadPollInv ==
  ASSUME Inv, NEW r \in Rid, ReadPoll(r)
  PROVE  Inv'
<1>1. PICK p \in {"done", "sched"} :
        /\ pc[r] = "sched"
        /\ m_watchlist' = [m_watchlist EXCEPT ![uid[r]["og"]] = "PROCESSING_REQUEST"]
        /\ pc' = [pc EXCEPT ![r] = p]
        /\ UNCHANGED <<m_static_counter, netVars, storeVars, kernelVars, tcpVars, reactVars,
                       aiVars, uid, stored>>
  <2> DEFINE p == IF HasResponse(uid[r]["og"]) THEN "done" ELSE "sched"
  <2>1. p \in {"done", "sched"}
    OBVIOUS
  <2> WITNESS p \in {"done", "sched"}
  <2> QED BY DEF ReadPoll, PollEntry
<1>2. uid[r]["og"] \in Uid
  BY <1>1 DEF Inv, Progress
<1>3. RMTypeOK' /\ Uids' /\ Datagrams' /\ Watchlist' /\ OnlyRegistered'
  BY <1>1, <1>2, ErasedEntry DEF netVars, kernelVars, reactVars
<1>4. Progress' /\ Stream'
  <2>1. p \in PCs \ {"none", "queued"} /\ pc[r] \notin {"none", "queued"}
        /\ p \notin WriteOnly
    BY <1>1 DEF PCs, WriteOnly, Counting, Ending
  <2> QED BY <1>1, <2>1, CommandStep DEF kernelVars, tcpVars, aiVars
<1>5. TypeOK'
  <2>1. pc' \in [Rid -> PCs]
    BY <1>1 DEF Inv, TypeOK, PCs
  <2> QED BY <1>1, <1>3, <2>1 DEF Inv, TypeOK, StoreTypeOK,
          netVars, storeVars, kernelVars, tcpVars, reactVars, aiVars
<1>6. Seen' /\ SuccessMeansReplicated'
  BY <1>1 DEF Inv, Seen, SuccessMeansReplicated, Stored, kernelVars, aiVars
<1> QED BY <1>3, <1>4, <1>5, <1>6 DEF Inv

(* WriteAIFunc polls the original: what it sees was DONE.                  *)
LEMMA WritePollOgInv ==
  ASSUME Inv, NEW r \in Rid, WritePollOg(r)
  PROVE  Inv'
<1>1. /\ pc[r] = "sched" /\ IsWrite(r)
      /\ m_watchlist' = [m_watchlist EXCEPT ![uid[r]["og"]] = "PROCESSING_REQUEST"]
      /\ seen' = [seen EXCEPT ![r]["og"] = HasResponse(uid[r]["og"])]
      /\ pc' = [pc EXCEPT ![r] = "pollBackup"]
      /\ UNCHANGED <<m_static_counter, netVars, storeVars, kernelVars, tcpVars, reactVars,
                     uid, stored, reg, counter, reply>>
  BY DEF WritePollOg, PollEntry
<1>2. uid[r]["og"] \in Uid
  BY <1>1 DEF Inv, Progress
<1>3. RMTypeOK' /\ Uids' /\ Datagrams' /\ Watchlist' /\ OnlyRegistered'
  BY <1>1, <1>2, ErasedEntry DEF netVars, kernelVars, reactVars
<1>4. /\ \A s \in Rid \ {r} : seen'[s] = seen[s]
      /\ seen'[r]["og"] = HasResponse(uid[r]["og"])
      /\ seen'[r]["backup"] = seen[r]["backup"]
      /\ seen' \in [Rid -> [Copies -> BOOLEAN]]
  BY <1>1 DEF Inv, TypeOK, Copies, HasResponse
<1>5. Progress' /\ Stream'
  <2>1. "pollBackup" \in PCs \ {"none", "queued"} /\ pc[r] \notin {"none", "queued"}
    BY <1>1 DEF PCs
  <2> QED BY <1>1, <1>4, <2>1, CommandStep DEF kernelVars, tcpVars
<1>6. TypeOK'
  <2>1. pc' \in [Rid -> PCs]
    BY <1>1 DEF Inv, TypeOK, PCs
  <2> QED BY <1>1, <1>3, <1>4, <2>1 DEF Inv, TypeOK, StoreTypeOK,
          netVars, storeVars, kernelVars, tcpVars, reactVars
<1>7. Seen'
  <2> SUFFICES ASSUME NEW s \in Rid, NEW c \in Copies, seen'[s][c] PROVE Stored(s, c)
    BY <1>1 DEF Seen, Stored, kernelVars
  <2>1. CASE s = r /\ c = "og"
    BY <1>1, <1>2, <1>4, <2>1 DEF Inv, Watchlist, Uid
  <2>2. CASE ~(s = r /\ c = "og")
    BY <1>4, <2>2 DEF Inv, Seen, Copies
  <2> QED BY <2>1, <2>2
<1>8. SuccessMeansReplicated'
  BY <1>1 DEF Inv, SuccessMeansReplicated, Stored, kernelVars
<1> QED BY <1>3, <1>5, <1>6, <1>7, <1>8 DEF Inv

(* WriteAIFunc polls the backup and reports a success it has evidence for. *)
LEMMA WritePollBackupInv ==
  ASSUME Inv, NEW r \in Rid, WritePollBackup(r)
  PROVE  Inv'
<1> DEFINE backup == HasResponse(uid[r]["backup"])
           both   == seen[r]["og"] /\ backup
<1>1. /\ pc[r] = "pollBackup"
      /\ m_watchlist' = [m_watchlist EXCEPT ![uid[r]["backup"]] = "PROCESSING_REQUEST"]
      /\ seen' = [seen EXCEPT ![r] = IF both THEN Both(FALSE)
                                      ELSE [@ EXCEPT !["backup"] = backup]]
      /\ NotifySucces(r, "Success", StatusLen) \/ UNCHANGED tcpDown
      /\ reply' = [reply EXCEPT ![r] = IF both THEN "Success" ELSE @]
      /\ UNCHANGED <<m_static_counter, netVars, storeVars, kernelVars, reactVars, uid,
                     stored, tcpUp, reg, counter>>
  BY DEF WritePollBackup, PollEntry
<1>2. PICK p \in {"done", "loadOg", "loadBackup"} : pc' = [pc EXCEPT ![r] = p]
  BY DEF WritePollBackup
<1>3. IsWrite(r) /\ uid[r]["og"] \in Uid /\ uid[r]["backup"] \in Uid
  BY <1>1 DEF Inv, Progress, WriteOnly
<1>4. RMTypeOK' /\ Uids' /\ Datagrams' /\ Watchlist' /\ OnlyRegistered'
  BY <1>1, <1>3, ErasedEntry DEF netVars, kernelVars, reactVars
<1>5. /\ backup => Stored(r, "backup")
      /\ seen[r]["og"] => Stored(r, "og")
  BY <1>3 DEF Inv, Watchlist, Seen, Uid, Copies
<1>6. backup \in BOOLEAN /\ both \in BOOLEAN
  BY DEF HasResponse
<1> HIDE DEF backup, both
<1>7. /\ \A s \in Rid \ {r} : seen'[s] = seen[s] /\ reply'[s] = reply[s]
      /\ seen'[r]["og"] => seen[r]["og"]
      /\ seen'[r]["backup"] => backup
      /\ reply'[r] = IF both THEN "Success" ELSE reply[r]
  BY <1>1 DEF Inv, TypeOK, Copies, Both
<1>8. seen' \in [Rid -> [Copies -> BOOLEAN]] /\ reply' \in [Rid -> Replies \cup {"none"}]
  <2>1. seen[r] \in [Copies -> BOOLEAN] /\ Both(FALSE) \in [Copies -> BOOLEAN]
    BY DEF Inv, TypeOK, Both
  <2>2. [seen[r] EXCEPT !["backup"] = backup] \in [Copies -> BOOLEAN]
    BY <1>6, <2>1
  <2> QED BY <1>1, <2>1, <2>2 DEF Inv, TypeOK, Replies
<1>9. Progress' /\ Stream'
  <2>1. p \in PCs \ {"none", "queued"} /\ pc[r] \notin {"none", "queued"}
    BY <1>1 DEF PCs, Counting
  <2> QED BY <1>1, <1>2, <1>3, <1>7, <2>1, CommandStep DEF kernelVars
<1>10. TypeOK'
  <2>1. pc' \in [Rid -> PCs]
    BY <1>2 DEF Inv, TypeOK, PCs, Counting
  <2>2. tcpDown' \in Seq(Unit)
    <3>1. tcpDown \in Seq(Unit) /\ "Success" \in Values \cup Replies /\ StatusLen \in Nat
      BY DriveAssumption DEF Inv, TypeOK, Replies
    <3> QED BY <1>1, <3>1, NotifyType
  <2> QED BY <1>1, <1>4, <1>8, <2>1, <2>2 DEF Inv, TypeOK, StoreTypeOK,
          netVars, storeVars, kernelVars, reactVars
<1>11. \A s \in Rid, c \in Copies : Stored(s, c)' = Stored(s, c)
  BY <1>1 DEF Stored, kernelVars
<1>12. Seen'
  <2> SUFFICES ASSUME NEW s \in Rid, NEW c \in Copies, seen'[s][c] PROVE Stored(s, c)
    BY <1>11 DEF Seen
  <2>1. CASE s = r
    BY <1>5, <1>7, <2>1 DEF Copies
  <2>2. CASE s # r
    BY <1>7, <2>2 DEF Inv, Seen
  <2> QED BY <2>1, <2>2
<1>13. SuccessMeansReplicated'
  <2> SUFFICES ASSUME NEW s \in Rid, NEW c \in Copies, reply'[s] = "Success"
               PROVE  Stored(s, c)
    BY <1>11 DEF SuccessMeansReplicated
  <2>1. CASE s = r /\ both
    BY <1>5, <2>1 DEF both, Copies
  <2>2. CASE ~(s = r /\ both)
    BY <1>7, <2>2 DEF Inv, SuccessMeansReplicated
  <2> QED BY <2>1, <2>2
<1> QED BY <1>4, <1>9, <1>10, <1>12, <1>13 DEF Inv


(* A step of WriteAIFunc on one of its counters.                           *)
Count(r) == \E c \in Copies : \/ LoadCounter(r, c) \/ StoreCounter(r, c)
                              \/ TestCounter(r, c) \/ ResetCounter(r, c)

(* Such a step sends nothing and forgets, at most, what the AI has seen.   *)
LEMMA CountStep ==
  ASSUME Inv, NEW r \in Rid, Count(r)
  PROVE  /\ \/ /\ pc[r] \in Counting
               /\ \E p \in Counting \cup {"sched", "notify"} : pc' = [pc EXCEPT ![r] = p]
            \/ /\ pc[r] \in Ending
               /\ \E p \in {"resetBackup", "done"} : pc' = [pc EXCEPT ![r] = p]
         /\ seen' = seen \/ seen' = [seen EXCEPT ![r] = Both(FALSE)]
         /\ UNCHANGED <<rmVars, netVars, storeVars, kernelVars, tcpVars, reactVars, uid,
                        stored, reply>>
<1>1. PICK c \in Copies : \/ LoadCounter(r, c) \/ StoreCounter(r, c)
                          \/ TestCounter(r, c) \/ ResetCounter(r, c)
  BY DEF Count
<1>2. c = "og" \/ c = "backup"
  BY DEF Copies
<1>3. ASSUME NEW p \in Counting \cup {"sched", "notify"}, pc[r] \in Counting,
             pc' = [pc EXCEPT ![r] = p]
      PROVE  \/ /\ pc[r] \in Counting
                /\ \E q \in Counting \cup {"sched", "notify"} : pc' = [pc EXCEPT ![r] = q]
             \/ /\ pc[r] \in Ending
                /\ \E q \in {"resetBackup", "done"} : pc' = [pc EXCEPT ![r] = q]
  BY <1>3
<1>4. CASE LoadCounter(r, c)
  <2>1. /\ pc[r] = LoadAt[c] /\ pc' = [pc EXCEPT ![r] = StoreAt[c]] /\ seen' = seen
        /\ UNCHANGED <<rmVars, netVars, storeVars, kernelVars, tcpVars, reactVars, uid,
                       stored, reply>>
    BY <1>4 DEF LoadCounter
  <2>2. LoadAt[c] \in Counting /\ StoreAt[c] \in Counting
    BY <1>2 DEF LoadAt, StoreAt, Counting
  <2> QED BY <1>3, <2>1, <2>2
<1>5. CASE StoreCounter(r, c)
  <2> DEFINE next == IF c = "og" /\ ~seen[r]["backup"] THEN "loadBackup" ELSE "testOg"
  <2>1. /\ pc[r] = StoreAt[c] /\ pc' = [pc EXCEPT ![r] = next]
        /\ seen' = [seen EXCEPT ![r] = IF next = "testOg" THEN Both(FALSE) ELSE @]
        /\ UNCHANGED <<rmVars, netVars, storeVars, kernelVars, tcpVars, reactVars, uid,
                       stored, reply>>
    BY <1>5 DEF StoreCounter
  <2>2. StoreAt[c] \in Counting /\ next \in Counting
    BY <1>2 DEF StoreAt, Counting
  <2> HIDE DEF next
  <2>3. seen' = seen \/ seen' = [seen EXCEPT ![r] = Both(FALSE)]
    <3>1. CASE next = "testOg"
      BY <2>1, <3>1
    <3>2. CASE next # "testOg"
      BY <2>1, <3>2 DEF Inv, TypeOK
    <3> QED BY <3>1, <3>2
  <2> QED BY <1>3, <2>1, <2>2, <2>3
<1>6. CASE TestCounter(r, c)
  <2> DEFINE next == IF counter[c] = POLL_LIMIT THEN "notify"
                     ELSE IF c = "og" THEN "testBackup" ELSE "sched"
  <2>1. /\ pc[r] = TestAt[c] /\ pc' = [pc EXCEPT ![r] = next] /\ seen' = seen
        /\ UNCHANGED <<rmVars, netVars, storeVars, kernelVars, tcpVars, reactVars, uid,
                       stored, reply>>
    BY <1>6 DEF TestCounter, aiVars
  <2>2. TestAt[c] \in Counting /\ next \in Counting \cup {"sched", "notify"}
    BY <1>2 DEF TestAt, Counting
  <2> HIDE DEF next
  <2> QED BY <1>3, <2>1, <2>2
<1>7. CASE ResetCounter(r, c)
  <2> DEFINE next == IF c = "og" THEN "resetBackup" ELSE "done"
  <2>1. /\ pc[r] = ResetAt[c] /\ pc' = [pc EXCEPT ![r] = next] /\ seen' = seen
        /\ UNCHANGED <<rmVars, netVars, storeVars, kernelVars, tcpVars, reactVars, uid,
                       stored, reply>>
    BY <1>7 DEF ResetCounter
  <2>2. ResetAt[c] \in Ending /\ next \in {"resetBackup", "done"}
    BY <1>2 DEF ResetAt, Ending
  <2> HIDE DEF next
  <2> QED BY <2>1, <2>2
<1> QED BY <1>1, <1>4, <1>5, <1>6, <1>7

(* The timeout is reported with one of the two texts.                      *)
LEMMA GiveUpStep ==
  ASSUME NEW r \in Rid, GiveUp(r)
  PROVE  /\ pc[r] = "notify" /\ pc' = [pc EXCEPT ![r] = "resetOg"]
         /\ \E text \in Failures : /\ NotifySucces(r, text, StatusLen)
                                   /\ reply' = [reply EXCEPT ![r] = text]
         /\ UNCHANGED <<rmVars, netVars, storeVars, kernelVars, reactVars, uid, stored,
                        tcpUp, seen, reg, counter>>
<1> DEFINE text == IF counter["og"] = POLL_LIMIT THEN "couldnt write og"
                                                 ELSE "couldnt write backup"
<1>1. text \in Failures
  BY DEF Failures
<1>2. /\ pc[r] = "notify" /\ pc' = [pc EXCEPT ![r] = "resetOg"]
      /\ NotifySucces(r, text, StatusLen) /\ reply' = [reply EXCEPT ![r] = text]
      /\ UNCHANGED <<rmVars, netVars, storeVars, kernelVars, reactVars, uid, stored,
                     tcpUp, seen, reg, counter>>
  BY DEF GiveUp
<1> HIDE DEF text
<1> QED BY <1>1, <1>2

(* The counters of WriteAIFunc.                                            *)
LEMMA CountersInv ==
  ASSUME Inv, NEW r \in Rid, Count(r) \/ GiveUp(r)
  PROVE  Inv'
<1>1. POLL_LIMIT \in Nat \ {0}
  BY DriveAssumption
<1>2. PICK p \in Counting \cup {"sched", "notify", "resetOg", "resetBackup", "done"} :
        pc' = [pc EXCEPT ![r] = p]
  BY CountStep, GiveUpStep
<1>3. /\ pc[r] \in {"notify"} \cup Counting \cup Ending
      /\ UNCHANGED <<rmVars, netVars, storeVars, kernelVars, reactVars, uid, stored, tcpUp>>
  BY CountStep, GiveUpStep DEF tcpVars
<1>4. counter' \in [Copies -> 0 .. (POLL_LIMIT + 1)]
      /\ reg' \in [Rid -> 0 .. (POLL_LIMIT + 1)]
  <2> DEFINE Typed == /\ counter' \in [Copies -> 0 .. (POLL_LIMIT + 1)]
                      /\ reg' \in [Rid -> 0 .. (POLL_LIMIT + 1)]
  <2>0. /\ counter \in [Copies -> 0 .. (POLL_LIMIT + 1)]
        /\ reg \in [Rid -> 0 .. (POLL_LIMIT + 1)] /\ 0 \in 0 .. (POLL_LIMIT + 1)
    BY <1>1 DEF Inv, TypeOK
  <2>1. ASSUME NEW c \in Copies, LoadCounter(r, c) PROVE Typed
    BY <2>0, <2>1 DEF LoadCounter
  <2>2. ASSUME NEW c \in Copies, StoreCounter(r, c) PROVE Typed
    <3>1. Increment(reg[r]) \in 0 .. (POLL_LIMIT + 1)
      BY <1>1, <2>0 DEF Increment
    <3>2. counter' = [counter EXCEPT ![c] = Increment(reg[r])] /\ reg' = [reg EXCEPT ![r] = 0]
      BY <2>2 DEF StoreCounter
    <3> QED BY <2>0, <3>1, <3>2
  <2>3. ASSUME NEW c \in Copies, ResetCounter(r, c) PROVE Typed
    BY <2>0, <2>3 DEF ResetCounter
  <2>4. ASSUME NEW c \in Copies, TestCounter(r, c) PROVE Typed
    BY <2>0, <2>4 DEF TestCounter, aiVars
  <2>5. CASE GiveUp(r)
    BY <2>0, <2>5 DEF GiveUp
  <2> QED BY <2>1, <2>2, <2>3, <2>4, <2>5 DEF Count
<1>5. /\ seen' = seen \/ seen' = [seen EXCEPT ![r] = Both(FALSE)]
      /\ reply' = reply \/ \E text \in Failures : reply' = [reply EXCEPT ![r] = text]
      /\ tcpDown' = tcpDown \/ \E text \in Failures : NotifySucces(r, text, StatusLen)
  BY CountStep, GiveUpStep DEF tcpVars
<1>6. /\ \A s \in Rid \ {r} : seen'[s] = seen[s] /\ reply'[s] = reply[s]
      /\ \A s \in Rid, c \in Copies : seen'[s][c] => seen[s][c]
      /\ \A s \in Rid : reply'[s] = "Success" => reply[s] = "Success"
      /\ seen' \in [Rid -> [Copies -> BOOLEAN]] /\ reply' \in [Rid -> Replies \cup {"none"}]
  <2>1. /\ seen \in [Rid -> [Copies -> BOOLEAN]] /\ reply \in [Rid -> Replies \cup {"none"}]
        /\ Both(FALSE) \in [Copies -> BOOLEAN] /\ \A c \in Copies : ~Both(FALSE)[c]
    BY DEF Inv, TypeOK, Both
  <2>2. /\ \A s \in Rid \ {r} : seen'[s] = seen[s]
        /\ \A s \in Rid, c \in Copies : seen'[s][c] => seen[s][c]
        /\ seen' \in [Rid -> [Copies -> BOOLEAN]]
    <3>1. CASE seen' = seen
      BY <2>1, <3>1
    <3>2. CASE seen' = [seen EXCEPT ![r] = Both(FALSE)]
      BY <2>1, <3>2
    <3> QED BY <1>5, <3>1, <3>2
  <2>3. /\ \A s \in Rid \ {r} : reply'[s] = reply[s]
        /\ \A s \in Rid : reply'[s] = "Success" => reply[s] = "Success"
        /\ reply' \in [Rid -> Replies \cup {"none"}]
    BY <1>5, <2>1 DEF Replies, Failures
  <2> QED BY <2>2, <2>3
<1>7. Progress' /\ Stream'
  <2>1. p \in PCs \ {"none", "queued"} /\ pc[r] \notin {"none", "queued"} /\ IsWrite(r)
    BY <1>3 DEF PCs, Inv, Progress, WriteOnly, Counting, Ending
  <2> QED BY <1>2, <1>3, <1>6, <2>1, CommandStep DEF kernelVars
<1>8. TypeOK'
  <2>1. pc' \in [Rid -> PCs]
    BY <1>2 DEF Inv, TypeOK, PCs, Ending
  <2>2. tcpDown' \in Seq(Unit)
    <3>1. tcpDown \in Seq(Unit) /\ Failures \subseteq Values \cup Replies
          /\ StatusLen \in Nat
      BY DriveAssumption DEF Inv, TypeOK, Replies
    <3> QED BY <1>5, <3>1, NotifyType
  <2> QED BY <1>3, <1>4, <1>6, <2>1, <2>2 DEF Inv, TypeOK, RMTypeOK, StoreTypeOK,
          rmVars, netVars, storeVars, kernelVars, reactVars
<1>9. Uids' /\ Datagrams' /\ Watchlist' /\ OnlyRegistered'
  BY <1>3 DEF Inv, rmVars, netVars, kernelVars, reactVars, Uids, Datagrams, DatagramOK,
              Watchlist, OnlyRegistered, HasResponse, IsWrite, Stored
<1>10. Seen' /\ SuccessMeansReplicated'
  BY <1>3, <1>6 DEF Inv, Seen, SuccessMeansReplicated, Stored, kernelVars
<1> QED BY <1>7, <1>8, <1>9, <1>10 DEF Inv

(* A race on the unordered_map loses an entry.                             *)
LEMMA MapRaceInv ==
  ASSUME Inv, NEW u \in Uid, MapRace(u)
  PROVE  Inv'
<1>1. /\ m_watchlist' = [m_watchlist EXCEPT ![u] = "PROCESSING_REQUEST"]
      /\ UNCHANGED <<m_static_counter, netVars, storeVars, kernelVars, tcpVars, reactVars,
                     aiVars, pc, uid, stored>>
  BY DEF MapRace, LoseEntry
<1>2. RMTypeOK' /\ Uids' /\ Datagrams' /\ Watchlist' /\ OnlyRegistered'
  BY <1>1, ErasedEntry DEF netVars, kernelVars, reactVars
<1>3. TypeOK'
  BY <1>1, <1>2 DEF Inv, TypeOK, StoreTypeOK,
                    netVars, storeVars, kernelVars, tcpVars, reactVars, aiVars
<1>4. Progress' /\ Stream' /\ Seen' /\ SuccessMeansReplicated'
  BY <1>1 DEF Inv, Progress, Stream, Seen, SuccessMeansReplicated, Stored, IsWrite,
              kernelVars, tcpVars, aiVars
<1> QED BY <1>2, <1>3, <1>4 DEF Inv

(* Minions and network: a response is sent for a write that is stored.     *)
LEMMA NetworkInv ==
  ASSUME Inv, NEW d \in net, Minion(d) \/ Lose(d)
  PROVE  Inv'
<1>1. d \in Datagram /\ DatagramOK(d)
  BY DEF Inv, TypeOK, Datagrams
<1>2. /\ d.type \in {"ReadMsg", "WriteMsg", "MinionReadMsg", "MinionWriteMsg"}
      /\ d.uid \in Uid /\ d.place \in Places /\ d.data \in Values
      /\ d.place.minion \in Minions /\ d.place.offset \in Offsets
  BY <1>1 DEF Datagram, Places
<1>3. UNCHANGED <<rmVars, kernelVars, tcpVars, reactVars, aiVars, pc, uid>>
  BY DEF Minion, MinionWrite, MinionRead, Lose
<1>4. GetBinFile(d.place.minion) \in [Offsets -> Values] /\ Zero \in Values
  BY <1>2, StoreAssumption DEF Inv, TypeOK, StoreTypeOK, GetBinFile
<1>5. StoreTypeOK'
  <2>1. CASE Lose(d)
    BY <2>1 DEF Inv, TypeOK, StoreTypeOK, Lose, storeVars
  <2>2. CASE MinionWrite(d)
    <3>1. [GetBinFile(d.place.minion) EXCEPT ![d.place.offset] = d.data] \in [Offsets -> Values]
      BY <1>2, <1>4
    <3> QED BY <1>2, <2>2, <3>1 DEF Inv, TypeOK, StoreTypeOK, MinionWrite, StoreBlock
  <2>3. CASE MinionRead(d)
    BY <1>2, <1>4, <2>3 DEF Inv, TypeOK, StoreTypeOK, MinionRead, Touch
  <2> QED BY <2>1, <2>2, <2>3 DEF Minion
<1>6. PICK replies \in SUBSET Datagram :
        /\ net' \subseteq net \cup replies /\ dups' \in 0 .. MaxDups /\ lost' \subseteq Uid
        /\ stored \subseteq stored'
        /\ stored' \subseteq [uid : Uid, place : Places, data : Values]
        /\ \A x \in replies : /\ x.uid = d.uid
                              /\ \/ x.type = "MinionReadMsg" /\ d.type = "ReadMsg"
                                 \/ /\ x.type = "MinionWriteMsg" /\ d.type = "WriteMsg"
                                    /\ [uid |-> d.uid, place |-> d.place, data |-> d.data]
                                         \in stored'
  <2>1. stored \subseteq [uid : Uid, place : Places, data : Values] /\ dups \in 0 .. MaxDups
        /\ lost \subseteq Uid
    BY DEF Inv, TypeOK
  <2>2. CASE Lose(d)
    <3>1. net' \subseteq net \cup {} /\ dups' = dups /\ stored' = stored
          /\ lost' \subseteq Uid
      BY <1>2, <2>1, <2>2 DEF Lose, Drop, Vanish
    <3>2. {} \in SUBSET Datagram
      OBVIOUS
    <3> QED BY <2>1, <3>1, <3>2
  <2>3. CASE MinionWrite(d)
    <3> DEFINE x == Message("MinionWriteMsg", d.uid, d.place, Zero)
               w == [uid |-> d.uid, place |-> d.place, data |-> d.data]
    <3>1. x \in Datagram /\ x.uid = d.uid /\ x.type = "MinionWriteMsg"
      BY <1>2, <1>4 DEF Datagram, Message
    <3>2. w \in [uid : Uid, place : Places, data : Values]
      BY <1>2
    <3>3. d.type = "WriteMsg" /\ Deliver(d, {x}) /\ stored' = stored \cup {w}
      BY <2>3 DEF MinionWrite
    <3>4. net' \subseteq net \cup {x} /\ dups' \in 0 .. MaxDups /\ lost' = lost
      BY <2>1, <3>3, NetworkAssumption DEF Deliver
    <3> HIDE DEF x
    <3>5. {x} \in SUBSET Datagram
      BY <3>1
    <3> QED BY <2>1, <3>1, <3>2, <3>3, <3>4, <3>5
  <2>4. CASE MinionRead(d)
    <3> DEFINE x == Message("MinionReadMsg", d.uid, d.place, FetchBlock(d.place))
    <3>1. x \in Datagram /\ x.uid = d.uid /\ x.type = "MinionReadMsg"
      BY <1>2, <1>4 DEF Datagram, Message, FetchBlock
    <3>2. d.type = "ReadMsg" /\ Deliver(d, {x}) /\ stored' = stored
      BY <2>4 DEF MinionRead
    <3>3. net' \subseteq net \cup {x} /\ dups' \in 0 .. MaxDups /\ lost' = lost
      BY <2>1, <3>2, NetworkAssumption DEF Deliver
    <3> HIDE DEF x
    <3>4. {x} \in SUBSET Datagram
      BY <3>1
    <3> QED BY <2>1, <3>1, <3>2, <3>3, <3>4
  <2> QED BY <2>2, <2>3, <2>4 DEF Minion
<1>7. TypeOK'
  <2>1. net' \subseteq Datagram
    BY <1>6 DEF Inv, TypeOK
  <2> QED BY <1>3, <1>5, <1>6, <2>1 DEF Inv, TypeOK, RMTypeOK,
          rmVars, kernelVars, tcpVars, reactVars, aiVars
<1>8. \A r \in Rid, c \in Copies : Stored(r, c) => Stored(r, c)'
  BY <1>3, <1>6 DEF Stored, kernelVars
<1>9. \A x : DatagramOK(x) => DatagramOK(x)'
  BY <1>3, <1>8 DEF DatagramOK, IsWrite, rmVars, kernelVars
<1>10. \A x \in replies : DatagramOK(x)'
  <2> SUFFICES ASSUME NEW x \in replies PROVE DatagramOK(x)'
    OBVIOUS
  <2>1. CASE x.type = "MinionReadMsg" /\ d.type = "ReadMsg"
    BY <1>1, <1>3, <1>6, <2>1 DEF DatagramOK, ToMinion, IsWrite, rmVars, kernelVars
  <2>2. CASE /\ x.type = "MinionWriteMsg" /\ d.type = "WriteMsg"
             /\ [uid |-> d.uid, place |-> d.place, data |-> d.data] \in stored'
    BY <1>1, <1>3, <1>6, <2>2 DEF DatagramOK, ToMinion, IsWrite, Stored, rmVars, kernelVars
  <2> QED BY <1>6, <2>1, <2>2
<1>11. Datagrams'
  BY <1>3, <1>6, <1>9, <1>10 DEF Inv, Datagrams, ToMinion, reactVars
<1>12. Progress' /\ Stream' /\ Uids' /\ OnlyRegistered'
  <2>1. Progress' /\ Stream'
    BY <1>3 DEF Inv, Progress, Stream, IsWrite, kernelVars, tcpVars, aiVars
  <2>2. Uids' /\ OnlyRegistered'
    BY <1>3 DEF Inv, Uids, OnlyRegistered, HasResponse, rmVars
  <2> QED BY <2>1, <2>2
<1>13. Watchlist' /\ Seen' /\ SuccessMeansReplicated'
  BY <1>3, <1>8 DEF Inv, Watchlist, Seen, SuccessMeansReplicated, HasResponse, IsWrite,
                    rmVars, kernelVars, aiVars
<1> QED BY <1>7, <1>11, <1>12, <1>13 DEF Inv


(* A response reaches the inbox.                                           *)
LEMMA ArriveInv ==
  ASSUME Inv, NEW d \in net, Arrive(d)
  PROVE  Inv'
<1>1. /\ ~ToMinion(d) /\ net' \subseteq net /\ inbox' = Append(inbox, d)
      /\ UNCHANGED <<rmVars, storeVars, kernelVars, tcpVars, aiVars, pc, uid, stored,
                     todo, interrupts, confirmed>>
  BY DEF Arrive, Deliver
<1>2. dups' \in 0 .. MaxDups /\ lost' = lost
  BY NetworkAssumption DEF Inv, TypeOK, Arrive, Deliver
<1>3. d \in Datagram /\ DatagramOK(d) /\ inbox \in Seq(Datagram)
  BY DEF Inv, TypeOK, Datagrams
<1>4. TypeOK'
  <2>1. inbox' \in Seq(Datagram) /\ net' \subseteq Datagram
    BY <1>1, <1>3 DEF Inv, TypeOK
  <2> QED BY <1>1, <1>2, <2>1 DEF Inv, TypeOK, RMTypeOK, StoreTypeOK,
          rmVars, storeVars, kernelVars, tcpVars, aiVars
<1>5. \A x : DatagramOK(x) => DatagramOK(x)'
  BY <1>1 DEF DatagramOK, IsWrite, Stored, rmVars, kernelVars
<1>6. \A i \in 1 .. Len(inbox') : DatagramOK(inbox'[i]) /\ ~ToMinion(inbox'[i])
  <2>1. /\ Len(inbox) \in Nat /\ Len(inbox') = Len(inbox) + 1 /\ inbox'[Len(inbox) + 1] = d
        /\ \A i \in 1 .. Len(inbox) : inbox'[i] = inbox[i]
    BY <1>1, <1>3
  <2> SUFFICES ASSUME NEW i \in 1 .. Len(inbox')
               PROVE  DatagramOK(inbox'[i]) /\ ~ToMinion(inbox'[i])
    OBVIOUS
  <2>2. CASE i = Len(inbox) + 1
    BY <1>1, <1>3, <2>1, <2>2
  <2>3. CASE i \in 1 .. Len(inbox)
    BY <2>1, <2>3 DEF Inv, Datagrams
  <2> QED BY <2>1, <2>2, <2>3
<1>7. Datagrams'
  <2>1. \A x \in net' : DatagramOK(x)'
    BY <1>1, <1>5 DEF Inv, Datagrams
  <2>2. \A i \in 1 .. Len(inbox') : DatagramOK(inbox[i])' /\ ~ToMinion(inbox[i])'
    BY <1>1, <1>6 DEF DatagramOK, ToMinion, IsWrite, Stored, rmVars, kernelVars
  <2> QED BY <2>1, <2>2 DEF Datagrams
<1>8. Progress' /\ Stream'
  BY <1>1 DEF Inv, Progress, Stream, IsWrite, kernelVars, tcpVars, aiVars
<1>9. Uids' /\ OnlyRegistered' /\ Watchlist' /\ Seen' /\ SuccessMeansReplicated'
  BY <1>1 DEF Inv, Uids, OnlyRegistered, Watchlist, Seen, SuccessMeansReplicated,
              HasResponse, IsWrite, Stored, rmVars, kernelVars, aiVars
<1> QED BY <1>4, <1>7, <1>8, <1>9 DEF Inv

(* A minion process starts again.                                          *)
LEMMA RestartInv ==
  ASSUME Inv, NEW m \in Minions, MinionRestart(m)
  PROVE  Inv'
<1>1. /\ net' \subseteq net
      /\ UNCHANGED <<dups, rmVars, kernelVars, tcpVars, reactVars, aiVars, pc, uid, stored>>
  BY DEF MinionRestart, Vanish
<1>2. StoreTypeOK'
  BY StoreAssumption DEF Inv, TypeOK, StoreTypeOK, MinionRestart, Restart
<1>3. TypeOK'
  <2>1. PICK D \in SUBSET net : lost' = lost \cup {d.uid : d \in D}
    BY DEF MinionRestart, Vanish
  <2>2. lost' \subseteq Uid
    BY <2>1 DEF Inv, TypeOK, Datagram
  <2>3. net' \subseteq Datagram
    BY <1>1 DEF Inv, TypeOK
  <2> QED BY <1>1, <1>2, <2>2, <2>3 DEF Inv, TypeOK, RMTypeOK, rmVars, kernelVars, tcpVars,
                    reactVars, aiVars
<1>4. Progress' /\ Stream'
  BY <1>1 DEF Inv, Progress, Stream, IsWrite, kernelVars, tcpVars, aiVars
<1>5. Datagrams'
  BY <1>1 DEF Inv, Datagrams, DatagramOK, IsWrite, Stored, rmVars, kernelVars, reactVars
<1>6. Uids' /\ OnlyRegistered' /\ Watchlist' /\ Seen' /\ SuccessMeansReplicated'
  BY <1>1 DEF Inv, Uids, OnlyRegistered, Watchlist, Seen, SuccessMeansReplicated,
              HasResponse, IsWrite, Stored, rmVars, kernelVars, aiVars
<1> QED BY <1>3, <1>4, <1>5, <1>6 DEF Inv

(* Inv is inductive.                                                       *)
LEMMA NextInv == Inv /\ [Next]_vars => Inv'
<1> SUFFICES ASSUME Inv, [Next]_vars PROVE Inv'
  OBVIOUS
<1>1. CASE \E q \in Requests : Issue(q)
  BY <1>1, IssueInv
<1>2. CASE Complete
  BY <1>2, CompleteInv
<1>3. CASE Reactor \/ Interrupted
  BY <1>3, SelectInv, HandleNBDInv, HandleUDPInv DEF Reactor
<1>4. CASE \E r \in Rid : Worker(r)
  BY <1>4, RegisterInv, SendInv DEF Worker
<1>5. CASE \E r \in Rid : Timer(r)
  BY <1>5, ReadPollInv, WritePollOgInv, WritePollBackupInv, CountersInv DEF Timer, Count
<1>6. CASE \E d \in net : Minion(d) \/ Arrive(d) \/ Lose(d)
  BY <1>6, NetworkInv, ArriveInv
<1>7. CASE \E u \in Uid : MapRace(u)
  BY <1>7, MapRaceInv
<1>8. CASE \E m \in Minions : MinionRestart(m)
  BY <1>8, RestartInv
<1>9. CASE UNCHANGED vars
  <2>1. UNCHANGED <<rmVars, netVars, storeVars, kernelVars, tcpVars, reactVars, aiVars,
                    pc, uid, stored>>
    BY <1>9 DEF vars
  <2>2. TypeOK'
    BY <2>1 DEF Inv, TypeOK, RMTypeOK, StoreTypeOK, rmVars, netVars, storeVars, kernelVars,
                tcpVars, reactVars, aiVars
  <2>3. Progress' /\ Stream'
    BY <2>1 DEF Inv, Progress, Stream, IsWrite, kernelVars, tcpVars, aiVars
  <2> QED BY <2>1, <2>2, <2>3, CoreFrame DEF Inv, netVars, kernelVars, reactVars, aiVars
<1> QED BY <1>1, <1>2, <1>3, <1>4, <1>5, <1>6, <1>7, <1>8, <1>9 DEF Next

(* The request path keeps its types whatever the network, the races and    *)
(* the restarts do, for any number of requests (IotDrive, all handlers).   *)
THEOREM TypeTheorem == Spec => []TypeOK
<1>1. Inv => TypeOK
  BY DEF Inv
<1> QED BY <1>1, InitInv, NextInv, PTL DEF Spec

(* WriteAIFunc never reports "Success" for a write that one of its two     *)
(* minions has not executed: for any number of requests, any placement of  *)
(* them, any poll limit, losses, duplicates, reorderings, lost entries of  *)
(* the watch list and restarts.                                            *)
THEOREM ReplicationTheorem == Spec => []SuccessMeansReplicated
<1>1. Inv => SuccessMeansReplicated
  BY DEF Inv
<1> QED BY <1>1, InitInv, NextInv, PTL DEF Spec


(* A write that was answered is at the end of WriteAIFunc.                 *)
Answered == \A r \in Rid : reply[r] # "none" => pc[r] \in Ending \cup {"done"}

(* What a step does to the command and the answer of one request: nothing, *)
(* or it moves a command that is not at its end and answers only on the    *)
(* way there, or it ends WriteAIFunc.                                      *)
MovesOn(s) ==
  \/ pc'[s] = pc[s] /\ reply'[s] = reply[s]
  \/ /\ pc[s] \notin Ending \cup {"done"}
     /\ reply'[s] # reply[s] => pc'[s] \in Ending \cup {"done"}
  \/ /\ pc[s] \in Ending /\ pc'[s] \in Ending \cup {"done"}
     /\ reply'[s] = reply[s]

LEMMA NextMovesOn ==
  ASSUME Inv, [Next]_vars, NEW s \in Rid
  PROVE  MovesOn(s)
<1>1. pc \in [Rid -> PCs] /\ reply \in [Rid -> Replies \cup {"none"}]
  BY DEF Inv, TypeOK
<1>2. CASE UNCHANGED <<pc, reply>>
  BY <1>2 DEF MovesOn
<1>3. CASE HandleNBD
  <2>1. pc' = [pc EXCEPT ![Head(tcpUp)] = "queued"] /\ reply' = reply /\ tcpUp # <<>>
    BY <1>3 DEF HandleNBD, aiVars
  <2>2. Head(tcpUp) \in Rid /\ pc[Head(tcpUp)] = "none"
    BY <2>1 DEF Inv, TypeOK, Stream
  <2> QED BY <1>1, <2>1, <2>2 DEF MovesOn, Ending
<1>4. ASSUME NEW r \in Rid, Worker(r) \/ ReadPoll(r) \/ WritePollOg(r)
      PROVE  MovesOn(s)
  <2>1. /\ pc[r] \notin Ending \cup {"done"} /\ reply' = reply
        /\ \E p : pc' = [pc EXCEPT ![r] = p]
    BY <1>4 DEF Worker, Register, SendOg, SendBackup, ReadPoll, WritePollOg, Ending, aiVars
  <2> QED BY <1>1, <2>1 DEF MovesOn
<1>5. ASSUME NEW r \in Rid, WritePollBackup(r)
      PROVE  MovesOn(s)
  <2> DEFINE both == seen[r]["og"] /\ HasResponse(uid[r]["backup"])
  <2>1. /\ pc[r] = "pollBackup"
        /\ reply' = [reply EXCEPT ![r] = IF both THEN "Success" ELSE @]
        /\ \E p : pc' = [pc EXCEPT ![r] = IF both THEN "done" ELSE p]
    BY <1>5 DEF WritePollBackup
  <2> HIDE DEF both
  <2> QED BY <1>1, <2>1 DEF MovesOn, Ending
<1>6. ASSUME NEW r \in Rid, GiveUp(r)
      PROVE  MovesOn(s)
  <2>1. PICK text \in Failures :
          /\ pc[r] = "notify" /\ pc' = [pc EXCEPT ![r] = "resetOg"]
          /\ reply' = [reply EXCEPT ![r] = text]
    BY <1>6, GiveUpStep
  <2> QED BY <1>1, <2>1 DEF MovesOn, Ending
<1>7. ASSUME NEW r \in Rid, Count(r)
      PROVE  MovesOn(s)
  <2>1. /\ reply' = reply
        /\ \/ /\ pc[r] \in Counting
              /\ \E p : pc' = [pc EXCEPT ![r] = p]
           \/ /\ pc[r] \in Ending
              /\ \E p \in {"resetBackup", "done"} : pc' = [pc EXCEPT ![r] = p]
    BY <1>7, CountStep
  <2>2. Counting \cap (Ending \cup {"done"}) = {} /\ "resetBackup" \in Ending
    BY DEF Counting, Ending
  <2> QED BY <1>1, <2>1, <2>2 DEF MovesOn
<1>8. CASE \/ \E q \in Requests : Issue(q)
           \/ Complete \/ Select \/ HandleUDP \/ Interrupted
           \/ \E d \in net : Minion(d) \/ Arrive(d) \/ Lose(d)
           \/ \E u \in Uid : MapRace(u)
           \/ \E m \in Minions : MinionRestart(m)
           \/ UNCHANGED vars
  <2>1. UNCHANGED <<pc, reply>>
    BY <1>8 DEF Issue, Complete, Select, HandleUDP, Interrupted, Minion, MinionWrite, MinionRead,
                Arrive, Lose, MapRace, MinionRestart, vars, aiVars
  <2> QED BY <1>2, <2>1
<1> QED BY <1>3, <1>4, <1>5, <1>6, <1>7, <1>8 DEF Next, Reactor, Timer, Count

(* What NotifySucces puts into the stream is for its request alone.        *)
LEMMA NotifySends ==
  ASSUME NEW r \in Rid, NEW val, NEW n \in Nat, tcpDown \in Seq(Unit),
         NotifySucces(r, val, n), NEW s \in Rid, Sends(s)
  PROVE  s = r
<1> DEFINE u == [i \in 1 .. n |-> [of |-> r, val |-> val]]
<1>1. tcpDown' = tcpDown \o u
  BY DEF NotifySucces
<1>2. PICK i \in (Len(tcpDown) + 1) .. Len(tcpDown') : tcpDown'[i].of = s
  BY DEF Sends
<1> DEFINE S == Unit \cup [of : {r}, val : {val}]
<1>3. u \in Seq(S) /\ Len(u) = n /\ tcpDown \in Seq(S)
  OBVIOUS
<1>4. \A j \in 1 .. n : u[j].of = r
  OBVIOUS
<1> HIDE DEF u, S
<1>5. Len(tcpDown) \in Nat /\ Len(tcpDown') = Len(tcpDown) + n
  <2>1. PICK T : tcpDown \in Seq(T) /\ u \in Seq(T)
    BY <1>3
  <2>2. Len(tcpDown \o u) = Len(tcpDown) + Len(u)
    BY <2>1, ConcatProperties
  <2>3. Len(tcpDown) \in Nat
    BY <2>1
  <2> QED BY <1>1, <1>3, <2>2, <2>3
<1>6. i - Len(tcpDown) \in 1 .. n
  BY <1>2, <1>5
<1>7. tcpDown'[i] = u[i - Len(tcpDown)]
  BY <1>1, <1>2, <1>3, <1>5, <1>6
<1> QED BY <1>2, <1>4, <1>6, <1>7

(* A step that leaves the stream alone sends nothing.                      *)
LEMMA SilentStep ==
  ASSUME Inv, NEW s \in Rid, Sends(s)
  PROVE  tcpDown' # tcpDown
<1>1. Len(tcpDown) \in Nat
  BY DEF Inv, TypeOK
<1> QED BY <1>1 DEF Sends

(* Only WriteAIFunc sends something for a write, and when it does it has   *)
(* not answered before.                                                    *)
LEMMA SendsOnce ==
  ASSUME Inv, Answered, [Next]_vars, NEW s \in Rid, IsWrite(s), Sends(s)
  PROVE  reply[s] = "none" /\ reply'[s] # "none"
<1>1. tcpDown \in Seq(Unit) /\ Len(tcpDown) \in Nat /\ tcpDown' # tcpDown
      /\ reply \in [Rid -> Replies \cup {"none"}] /\ BlockLen \in Nat /\ StatusLen \in Nat
  BY SilentStep, DriveAssumption DEF Inv, TypeOK
<1>2. ASSUME Complete PROVE FALSE
  <2>1. PICK n \in 1 .. Available : tcpDown' = SubSeq(tcpDown, n + 1, Len(tcpDown))
    BY <1>2 DEF Complete
  <2>2. n \in Nat /\ n <= Len(tcpDown)
    BY <1>1, <2>1, DriveAssumption DEF Available
  <2>3. Len(tcpDown') = Len(tcpDown) - n
    BY <1>1, <2>1, <2>2, SubSeqProperties
  <2> QED BY <1>1, <2>1, <2>2, <2>3 DEF Sends
<1>3. ASSUME HandleUDP PROVE FALSE
  <2> DEFINE d == Head(inbox)
  <2>1. /\ inbox # <<>> /\ d.type = "MinionReadMsg"
        /\ NotifySucces(Owner(d.uid), d.data, BlockLen)
    BY <1>1, <1>3 DEF HandleUDP
  <2>2. d \in Datagram /\ DatagramOK(d)
    BY <2>1 DEF Inv, TypeOK, Datagrams
  <2> HIDE DEF d
  <2>3. \E r \in Rid : \E c \in Copies : uid[r][c] = d.uid
    BY <2>2 DEF Inv, Uids, DatagramOK, Datagram
  <2>4. Owner(d.uid) \in Rid /\ \E c \in Copies : uid[Owner(d.uid)][c] = d.uid
    BY <2>3 DEF Owner
  <2>5. ~IsWrite(Owner(d.uid))
    BY <2>1, <2>2, <2>4 DEF DatagramOK
  <2>6. s = Owner(d.uid)
    BY <1>1, <2>1, <2>4, NotifySends
  <2> QED BY <2>5, <2>6
<1>4. ASSUME NEW r \in Rid, WritePollBackup(r)
      PROVE  reply[s] = "none" /\ reply'[s] # "none"
  <2>1. /\ pc[r] = "pollBackup" /\ NotifySucces(r, "Success", StatusLen)
        /\ reply' = [reply EXCEPT ![r] = "Success"]
    BY <1>1, <1>4 DEF WritePollBackup
  <2>2. s = r
    BY <1>1, <2>1, NotifySends
  <2> QED BY <1>1, <2>1, <2>2 DEF Answered, Ending
<1>5. ASSUME NEW r \in Rid, GiveUp(r)
      PROVE  reply[s] = "none" /\ reply'[s] # "none"
  <2>1. PICK text \in Failures :
          /\ pc[r] = "notify" /\ NotifySucces(r, text, StatusLen)
          /\ reply' = [reply EXCEPT ![r] = text]
    BY <1>5, GiveUpStep
  <2>2. s = r
    BY <1>1, <2>1, NotifySends
  <2> QED BY <1>1, <2>1, <2>2 DEF Answered, Ending, Failures
<1>6. ASSUME NEW r \in Rid, Count(r) PROVE FALSE
  BY <1>1, <1>6, CountStep DEF tcpVars
<1>7. CASE \/ \E q \in Requests : Issue(q)
           \/ Select \/ HandleNBD \/ Interrupted
           \/ \E r \in Rid : Worker(r) \/ ReadPoll(r) \/ WritePollOg(r)
           \/ \E d \in net : Minion(d) \/ Arrive(d) \/ Lose(d)
           \/ \E u \in Uid : MapRace(u)
           \/ \E m \in Minions : MinionRestart(m)
           \/ UNCHANGED vars
  BY <1>1, <1>7 DEF Issue, Select, HandleNBD, Interrupted, Worker, Register, SendOg, SendBackup,
             ReadPoll, WritePollOg, Minion, MinionWrite, MinionRead, Arrive, Lose, MapRace,
             MinionRestart, vars, tcpVars
<1> QED BY <1>2, <1>3, <1>4, <1>5, <1>6, <1>7 DEF Next, Reactor, Timer, Count

(* A write is answered at most once, by WriteAIFunc's success or by its    *)
(* timeout: whatever goes into the TCP stream for it is the first thing    *)
(* that does, for any number of requests and any interleaving.             *)
THEOREM OneReplyTheorem == Spec => OneReply
<1>1. Init => Answered
  BY DEF Init, Answered
<1>2. Answered /\ Inv /\ [Next]_vars => Answered'
  BY NextMovesOn DEF Answered, MovesOn
<1>3. Answered /\ Inv /\ [Next]_vars
        => [\A r \in Rid : /\ reply[r] # "none" => reply'[r] = reply[r]
                           /\ IsWrite(r) /\ Sends(r)
                                => reply[r] = "none" /\ reply'[r] # "none"]_vars
  <2> SUFFICES ASSUME Answered, Inv, [Next]_vars, NEW r \in Rid
               PROVE  /\ reply[r] # "none" => reply'[r] = reply[r]
                      /\ IsWrite(r) /\ Sends(r) => reply[r] = "none" /\ reply'[r] # "none"
    OBVIOUS
  <2>1. reply[r] # "none" => reply'[r] = reply[r]
    BY NextMovesOn DEF Answered, MovesOn
  <2>2. ASSUME IsWrite(r), Sends(r) PROVE reply[r] = "none" /\ reply'[r] # "none"
    BY <2>2, SendsOnce
  <2> QED BY <2>1, <2>2
<1> QED BY <1>1, <1>2, <1>3, InitInv, NextInv, PTL DEF Spec, OneReply

-----------------------------------------------------------------------------
(***************************************************************************)
(* The requests in order.  RepliesInStep is about what the NBD thread      *)
(* reads from a stream without request numbers.  It needs that only the    *)
(* current request is without a reply (InStep), and that no reply is sent  *)
(* twice: a response is registered once, because a command that the        *)
(* network does not repeat leaves one trace (OneTrace).                    *)
(***************************************************************************)

(* Exactly the requests issued so far are known, and only they complete.   *)
Known ==
  /\ \A r \in Rid : IF r <= issued THEN req[r] \in Request ELSE req[r] = NoRequest
  /\ \A r \in Rid : outcome[r] # <<>> => r <= issued
  /\ nbd = "recv" => issued > 0

(* A uid counts as confirmed once its response was registered.             *)
Confirmed ==
  /\ \A u \in confirmed : u < m_static_counter
  /\ \A u \in Uid : HasResponse(u) => u \in confirmed
  /\ \A r \in Rid, c \in Copies : seen[r][c] => uid[r][c] \in confirmed
  /\ \A r \in Rid, c \in Copies : reply[r] = "Success" => uid[r][c] \in confirmed
  /\ \A r \in Rid : IsWrite(r) \/ uid[r]["backup"] = 0

(* The message of copy c of request r is still to be sent.                 *)
Unsent(r, c) == pc[r] = "sendOg" \/ (pc[r] = "sendBackup" /\ c = "backup")

(* As long as nothing was delivered twice a command is at one place at     *)
(* most: not yet sent, in the network, in the inbox or confirmed.          *)
OneTrace ==
  /\ \A d, e \in net : d.uid = e.uid => d = e
  /\ \A i, j \in 1 .. Len(inbox) : inbox[i].uid = inbox[j].uid => i = j
  /\ \A d \in net, i \in 1 .. Len(inbox) : d.uid # inbox[i].uid
  /\ \A d \in net : d.uid \notin confirmed
  /\ \A i \in 1 .. Len(inbox) : inbox[i].uid \notin confirmed
  /\ \A r \in Rid, c \in Copies : Unsent(r, c) /\ uid[r][c] # 0 =>
       /\ \A d \in net : d.uid # uid[r][c]
       /\ \A i \in 1 .. Len(inbox) : inbox[i].uid # uid[r][c]
       /\ uid[r][c] \notin confirmed

(* The NBD thread has been sent the reply to request r.                    *)
Replied(r) == IF IsWrite(r) THEN reply[r] # "none" ELSE uid[r]["og"] \in confirmed

(* Every request but the current one has its reply, and the stream holds   *)
(* the reply to the current one, whole, or nothing.                        *)
InStep ==
  /\ \A r \in Rid : r < issued \/ (r = issued /\ nbd = "idle") => Replied(r)
  /\ nbd = "idle" => tcpDown = <<>>
  /\ nbd = "recv" /\ ~Replied(issued) => tcpDown = <<>>
  /\ nbd = "recv" /\ Replied(issued) =>
       /\ Len(tcpDown) = IF IsWrite(issued) THEN StatusLen ELSE BlockLen
       /\ \A i \in 1 .. Len(tcpDown) : tcpDown[i].of = issued

Sequential == dups = 0 /\ short = 0 => OneTrace /\ InStep

-----------------------------------------------------------------------------
(* Only the NBD thread changes what the kernel knows.                      *)
LEMMA KernelSteps ==
  ASSUME [Next]_vars
  PROVE  \/ \E q \in Requests : Issue(q)
         \/ Complete
         \/ UNCHANGED kernelVars
BY DEF Next, Reactor, Select, HandleNBD, HandleUDP, Interrupted, Worker, Register, SendOg,
       SendBackup, Timer, ReadPoll, WritePollOg, WritePollBackup, LoadCounter, StoreCounter,
       TestCounter, GiveUp, ResetCounter, Minion, MinionWrite, MinionRead, Arrive, Lose,
       MapRace, MinionRestart, vars

(* What the kernel has asked for is kept.                                  *)
LEMMA KnownNext == Inv /\ Known /\ [Next]_vars => Known'
<1> SUFFICES ASSUME Inv, Known, [Next]_vars PROVE Known'
  OBVIOUS
<1>1. CASE \E q \in Requests : Issue(q)
  <2>1. PICK q \in Requests : Issue(q)
    BY <1>1
  <2>2. issued' = issued + 1 /\ issued \in Nat /\ issued < MaxRequests
        /\ req' = [req EXCEPT ![issued + 1] = q] /\ q \in Request
        /\ outcome' = outcome
    BY <2>1, DriveAssumption DEF Issue, Inv, TypeOK
  <2>3. ASSUME NEW r \in Rid
        PROVE  IF r <= issued' THEN req'[r] \in Request ELSE req'[r] = NoRequest
    <3>1. CASE r = issued + 1
      BY <2>2, <3>1 DEF Inv, TypeOK, Rid
    <3>2. CASE r # issued + 1
      <4>1. req'[r] = req[r] /\ (r <= issued' <=> r <= issued)
        BY <2>2, <3>2 DEF Rid
      <4> QED BY <4>1 DEF Known
    <3> QED BY <3>1, <3>2
  <2>4. \A r \in Rid : outcome'[r] # <<>> => r <= issued'
    BY <2>2 DEF Known, Rid
  <2> QED BY <2>2, <2>3, <2>4 DEF Known
<1>2. CASE Complete
  <2>1. issued \in Nat /\ outcome \in [Rid -> Seq(Unit)]
    BY DEF Inv, TypeOK
  <2>2. PICK n \in 1 .. Available :
          /\ outcome' = [outcome EXCEPT ![issued] = SubSeq(tcpDown, 1, n)]
          /\ nbd' = "idle" /\ UNCHANGED <<issued, req>>
    BY <1>2 DEF Complete
  <2>3. \A r \in Rid : outcome'[r] # <<>> => r <= issued
    BY <2>1, <2>2 DEF Known
  <2> QED BY <2>2, <2>3 DEF Known
<1>3. CASE UNCHANGED kernelVars
  BY <1>3 DEF kernelVars, Known
<1> QED BY <1>1, <1>2, <1>3, KernelSteps

(* Repetitions, restarts and short receptions are not forgotten.           *)
LEMMA CountsGrow ==
  ASSUME Inv, [Next]_vars
  PROVE  /\ dups' = 0 => dups = 0
         /\ restarts' = 0 => restarts = 0
         /\ short' = 0 => short = 0
<1>1. dups \in Nat /\ restarts \in Nat /\ short \in Nat
  BY DEF Inv, TypeOK, StoreTypeOK
<1>0. short' = 0 => short = 0
  <2>1. CASE Complete
    BY <1>1, <2>1 DEF Complete
  <2>2. CASE \E q \in Requests : Issue(q)
    BY <2>2 DEF Issue
  <2>3. CASE UNCHANGED kernelVars
    BY <2>3 DEF kernelVars
  <2> QED BY <2>1, <2>2, <2>3, KernelSteps
<1>2. CASE \E d \in net : Minion(d) \/ Arrive(d) \/ Lose(d)
  BY <1>0, <1>1, <1>2 DEF Minion, MinionWrite, MinionRead, Arrive, Lose, Deliver, Drop, Vanish,
                    StoreBlock, Touch, storeVars
<1>3. CASE \E m \in Minions : MinionRestart(m)
  BY <1>0, <1>1, <1>3 DEF MinionRestart, Restart, Vanish
<1>4. CASE UNCHANGED <<netVars, storeVars>>
  BY <1>0, <1>4 DEF netVars, storeVars
<1>5. CASE \E r \in Rid : SendOg(r) \/ SendBackup(r)
  BY <1>0, <1>5 DEF SendOg, SendBackup, Send, storeVars
<1>6. \/ \E d \in net : Minion(d) \/ Arrive(d) \/ Lose(d)
      \/ \E m \in Minions : MinionRestart(m)
      \/ \E r \in Rid : SendOg(r) \/ SendBackup(r)
      \/ UNCHANGED <<netVars, storeVars>>
  BY DEF Next, Issue, Complete, Reactor, Select, HandleNBD, HandleUDP, Interrupted, Worker,
         Register, Timer, ReadPoll, WritePollOg, WritePollBackup, LoadCounter, StoreCounter,
         TestCounter, GiveUp, ResetCounter, MapRace, vars
<1> QED BY <1>0, <1>2, <1>3, <1>4, <1>5, <1>6

(* A uid that was handed out belongs to a command that has started.        *)
LEMMA OwnerExists ==
  ASSUME Inv, NEW u \in Uid, u < m_static_counter
  PROVE  \E r \in Rid, c \in Copies :
           uid[r][c] = u /\ pc[r] \notin {"none", "queued"} /\ r <= issued /\ req[r] \in Request
<1>1. PICK r \in Rid, c \in Copies : uid[r][c] = u
  BY DEF Inv, Uids
<1>2. u # 0
  BY DEF Uid
<1>3. pc[r] \notin {"none", "queued"}
  BY <1>1, <1>2 DEF Inv, Progress, Both
<1>4. r <= issued
  <2>1. ~(r > issued)
    BY <1>3 DEF Inv, Progress
  <2> QED BY <2>1 DEF Inv, TypeOK, Rid
<1>5. req[r] \in Request
  BY <1>3 DEF Inv, Progress
<1> QED BY <1>1, <1>3, <1>4, <1>5

(* A response is registered before anything counts on it.                  *)
LEMMA ConfirmedNext == Inv /\ Confirmed /\ [Next]_vars => Confirmed'
<1> SUFFICES ASSUME Inv, Confirmed, [Next]_vars PROVE Confirmed'
  OBVIOUS
<1>0. /\ m_watchlist \in [Uid -> Status] /\ m_static_counter \in Nat
      /\ uid \in [Rid -> [Copies -> 0 .. MaxUid]] /\ confirmed \subseteq Uid
      /\ seen \in [Rid -> [Copies -> BOOLEAN]] /\ reply \in [Rid -> Replies \cup {"none"}]
  BY DEF Inv, TypeOK, RMTypeOK
<1>1. CASE HandleUDP
  <2> DEFINE d == Head(inbox)
  <2>1. /\ inbox # <<>>
        /\ m_watchlist' = [m_watchlist EXCEPT ![d.uid] = "DONE"]
        /\ confirmed' = confirmed \cup {d.uid}
        /\ UNCHANGED <<m_static_counter, kernelVars, aiVars, uid>>
    BY <1>1 DEF HandleUDP, RegisterResponse
  <2>2. DatagramOK(d) /\ d \in Datagram
    BY <2>1 DEF Inv, TypeOK, Datagrams
  <2>3. d.uid \in Uid /\ d.uid < m_static_counter
    BY <2>2 DEF Datagram, DatagramOK
  <2> HIDE DEF d
  <2>4. \A u \in Uid : m_watchlist'[u] = "DONE" => u = d.uid \/ m_watchlist[u] = "DONE"
    BY <1>0, <2>1, <2>3
  <2> QED BY <2>1, <2>3, <2>4 DEF Confirmed, HasResponse, IsWrite, kernelVars, aiVars
<1>2. ASSUME NEW r \in Rid, Register(r)
      PROVE  Confirmed'
  <2> DEFINE n == IF IsWrite(r) THEN 2 ELSE 1
  <2>1. /\ pc[r] = "queued" /\ m_static_counter' = m_static_counter + n
        /\ m_watchlist' = [u \in Uid |-> IF u \in m_static_counter .. (m_static_counter + n - 1)
                                         THEN "PROCESSING_REQUEST" ELSE m_watchlist[u]]
        /\ uid' = [uid EXCEPT ![r] = [c \in Copies |->
                     IF c = "og" THEN m_static_counter
                     ELSE IF IsWrite(r) THEN m_static_counter + 1 ELSE 0]]
        /\ UNCHANGED <<kernelVars, reactVars, aiVars>>
    BY <1>2 DEF Register, RegisterCommands
  <2>2. n \in Nat
    OBVIOUS
  <2> HIDE DEF n
  <2>3. \A u \in confirmed : u < m_static_counter'
    BY <1>0, <2>1, <2>2 DEF Confirmed, Uid
  <2>4. \A u \in Uid : m_watchlist'[u] = "DONE" => m_watchlist[u] = "DONE"
    BY <2>1
  <2>5. /\ \A s \in Rid \ {r} : uid'[s] = uid[s]
        /\ IsWrite(r) \/ uid'[r]["backup"] = 0
    BY <1>0, <2>1 DEF Copies
  <2>6. seen[r] = Both(FALSE) /\ reply[r] = "none"
    BY <2>1 DEF Inv, Progress
  <2>7. \A s \in Rid, c \in Copies : seen[s][c] \/ reply[s] = "Success" => s # r
    BY <2>6 DEF Both
  <2> QED BY <2>1, <2>3, <2>4, <2>5, <2>7 DEF Confirmed, HasResponse, IsWrite, kernelVars,
                                              reactVars, aiVars
<1>3. ASSUME NEW u \in Uid, m_watchlist' = [m_watchlist EXCEPT ![u] = "PROCESSING_REQUEST"],
             UNCHANGED <<m_static_counter, confirmed, seen, reply, uid, req>>
      PROVE  Confirmed'
  <2>1. \A x \in Uid : m_watchlist'[x] = "DONE" => m_watchlist[x] = "DONE"
    BY <1>0, <1>3
  <2> QED BY <1>3, <2>1 DEF Confirmed, HasResponse, IsWrite
<1>4. ASSUME NEW r \in Rid, ReadPoll(r)
      PROVE  Confirmed'
  <2>1. uid[r]["og"] \in Uid
    BY <1>4 DEF ReadPoll, Inv, Progress
  <2> QED BY <1>3, <1>4, <2>1 DEF ReadPoll, PollEntry, kernelVars, reactVars, aiVars
<1>5. ASSUME NEW u \in Uid, MapRace(u)
      PROVE  Confirmed'
  BY <1>3, <1>5 DEF MapRace, LoseEntry, kernelVars, reactVars, aiVars
<1>6. ASSUME NEW r \in Rid, WritePollOg(r)
      PROVE  Confirmed'
  <2>1. /\ pc[r] = "sched"
        /\ m_watchlist' = [m_watchlist EXCEPT ![uid[r]["og"]] = "PROCESSING_REQUEST"]
        /\ seen' = [seen EXCEPT ![r]["og"] = HasResponse(uid[r]["og"])]
        /\ UNCHANGED <<m_static_counter, kernelVars, reactVars, uid, reply>>
    BY <1>6 DEF WritePollOg, PollEntry
  <2>2. uid[r]["og"] \in Uid
    BY <2>1 DEF Inv, Progress
  <2>3. \A x \in Uid : m_watchlist'[x] = "DONE" => m_watchlist[x] = "DONE"
    BY <1>0, <2>1, <2>2
  <2>4. ASSUME NEW s \in Rid, NEW c \in Copies, seen'[s][c]
        PROVE  seen[s][c] \/ (s = r /\ c = "og" /\ HasResponse(uid[r]["og"]))
    BY <1>0, <2>1, <2>4 DEF Copies
  <2> QED BY <2>1, <2>2, <2>3, <2>4 DEF Confirmed, HasResponse, IsWrite, kernelVars, reactVars
<1>7. ASSUME NEW r \in Rid, WritePollBackup(r)
      PROVE  Confirmed'
  <2> DEFINE backup == HasResponse(uid[r]["backup"])
             both   == seen[r]["og"] /\ backup
  <2>1. /\ pc[r] = "pollBackup"
        /\ m_watchlist' = [m_watchlist EXCEPT ![uid[r]["backup"]] = "PROCESSING_REQUEST"]
        /\ seen' = [seen EXCEPT ![r] = IF both THEN Both(FALSE)
                                        ELSE [@ EXCEPT !["backup"] = backup]]
        /\ reply' = [reply EXCEPT ![r] = IF both THEN "Success" ELSE @]
        /\ UNCHANGED <<m_static_counter, kernelVars, reactVars, uid>>
    BY <1>7 DEF WritePollBackup, PollEntry
  <2>2. uid[r]["backup"] \in Uid
    BY <2>1 DEF Inv, Progress, WriteOnly
  <2>3. \A x \in Uid : m_watchlist'[x] = "DONE" => m_watchlist[x] = "DONE"
    BY <1>0, <2>1, <2>2
  <2>4. backup => uid[r]["backup"] \in confirmed
    BY <2>2 DEF Confirmed
  <2>5. both => backup /\ uid[r]["og"] \in confirmed
    BY DEF Confirmed, Copies
  <2> HIDE DEF backup, both
  <2>6. /\ \A s \in Rid \ {r} : seen'[s] = seen[s] /\ reply'[s] = reply[s]
        /\ seen'[r]["og"] => seen[r]["og"]
        /\ seen'[r]["backup"] => backup
        /\ reply'[r] = IF both THEN "Success" ELSE reply[r]
    BY <1>0, <2>1 DEF Copies, Both
  <2>7. ASSUME NEW s \in Rid, NEW c \in Copies, seen'[s][c]
        PROVE  uid[s][c] \in confirmed
    <3>1. CASE s = r
      BY <2>4, <2>6, <2>7, <3>1 DEF Copies, Confirmed
    <3>2. CASE s # r
      BY <2>6, <2>7, <3>2 DEF Confirmed
    <3> QED BY <3>1, <3>2
  <2>8. ASSUME NEW s \in Rid, NEW c \in Copies, reply'[s] = "Success"
        PROVE  uid[s][c] \in confirmed
    <3>1. CASE s = r /\ both
      BY <2>4, <2>5, <3>1 DEF Copies
    <3>2. CASE ~(s = r /\ both)
      BY <2>6, <2>8, <3>2 DEF Confirmed
    <3> QED BY <3>1, <3>2
  <2> QED BY <2>1, <2>3, <2>7, <2>8 DEF Confirmed, HasResponse, IsWrite, kernelVars, reactVars
<1>8. ASSUME NEW r \in Rid, Count(r) \/ GiveUp(r)
      PROVE  Confirmed'
  <2>1. /\ reply' = reply \/ \E text \in Failures : reply' = [reply EXCEPT ![r] = text]
        /\ seen' = seen \/ seen' = [seen EXCEPT ![r] = Both(FALSE)]
        /\ UNCHANGED <<rmVars, kernelVars, reactVars, uid>>
    BY <1>8, CountStep, GiveUpStep
  <2>2. \A text \in Failures : text # "Success"
    BY DEF Failures
  <2>3. /\ \A s \in Rid : reply'[s] = "Success" => reply[s] = "Success"
        /\ \A s \in Rid, c \in Copies : seen'[s][c] => seen[s][c]
    BY <1>0, <2>1, <2>2 DEF Both
  <2> QED BY <2>1, <2>3 DEF Confirmed, HasResponse, IsWrite, rmVars, kernelVars, reactVars
<1>9. ASSUME NEW q \in Requests, Issue(q)
      PROVE  Confirmed'
  <2>1. /\ req' = [req EXCEPT ![issued + 1] = q] /\ issued < MaxRequests
        /\ UNCHANGED <<rmVars, reactVars, aiVars, uid>>
    BY <1>9 DEF Issue
  <2>2. issued + 1 \in Rid /\ issued + 1 > issued
    BY <2>1, DriveAssumption DEF Inv, TypeOK, Rid
  <2>3. uid[issued + 1] = Both(0)
    BY <2>2 DEF Inv, Progress
  <2>4. \A s \in Rid : IsWrite(s)' \/ uid[s]["backup"] = 0
    BY <2>1, <2>3 DEF Inv, TypeOK, Confirmed, IsWrite, Both, Copies
  <2> QED BY <2>1, <2>4 DEF Confirmed, HasResponse, rmVars, reactVars, aiVars
<1>10. CASE UNCHANGED <<rmVars, confirmed, seen, reply, uid, req>>
  BY <1>10 DEF Confirmed, HasResponse, IsWrite, rmVars
<1>11. CASE \/ Complete \/ Select \/ Interrupted \/ HandleNBD
            \/ \E r \in Rid : SendOg(r) \/ SendBackup(r)
            \/ \E d \in net : Minion(d) \/ Arrive(d) \/ Lose(d)
            \/ \E m \in Minions : MinionRestart(m)
            \/ UNCHANGED vars
  <2>1. UNCHANGED <<rmVars, confirmed, seen, reply, uid, req>>
    BY <1>11 DEF Complete, Select, Interrupted, HandleNBD, SendOg, SendBackup, Minion, MinionWrite, MinionRead, Arrive, Lose, MinionRestart,
                 vars, kernelVars, reactVars, aiVars
  <2> QED BY <1>10, <2>1
<1> QED BY <1>1, <1>2, <1>4, <1>5, <1>6, <1>7, <1>8, <1>9, <1>11
        DEF Next, Reactor, Worker, Timer, Count

(* A command that is not repeated by the network leaves one trace: it is   *)
(* sent once, answered once and its response is registered once.           *)
LEMMA OneTraceNext ==
  ASSUME Inv, Confirmed, OneTrace, [Next]_vars, dups' = 0
  PROVE  OneTrace'
<1>0. /\ pc \in [Rid -> PCs] /\ uid \in [Rid -> [Copies -> 0 .. MaxUid]]
      /\ net \subseteq Datagram /\ inbox \in Seq(Datagram) /\ confirmed \subseteq Uid
      /\ m_static_counter \in Nat /\ Len(inbox) \in Nat /\ dups \in Nat
  BY DEF Inv, TypeOK, RMTypeOK
<1>1. ASSUME UNCHANGED <<net, inbox, confirmed, uid>>,
             \A s \in Rid : pc'[s] \in {"sendOg", "sendBackup"} => pc'[s] = pc[s]
      PROVE  OneTrace'
  BY <1>1 DEF OneTrace, Unsent
<1>2. ASSUME NEW r \in Rid, SendOg(r) \/ SendBackup(r)
      PROVE  OneTrace'
  <2>1. PICK c \in Copies :
          /\ pc[r] = IF c = "og" THEN "sendOg" ELSE "sendBackup"
          /\ net' = net \cup {Request2Minion(r, c)}
          /\ pc' = [pc EXCEPT ![r] = IF c = "og" /\ IsWrite(r) THEN "sendBackup" ELSE "sched"]
          /\ UNCHANGED <<reactVars, uid>>
    <3>1. CASE SendOg(r)
      BY <3>1 DEF SendOg, Send, Copies
    <3>2. CASE SendBackup(r)
      BY <3>2 DEF SendBackup, Send, Copies
    <3> QED BY <1>2, <3>1, <3>2
  <2> DEFINE x == Request2Minion(r, c)
  <2>2. x.uid = uid[r][c]
    BY DEF Request2Minion, Message
  <2>3. uid[r][c] # 0
    <3>1. pc[r] \notin {"none", "queued"} /\ (pc[r] = "sendBackup" => IsWrite(r))
      BY <2>1 DEF Inv, Progress, WriteOnly
    <3>2. uid[r]["og"] \in Uid /\ (IsWrite(r) => uid[r]["backup"] \in Uid)
      BY <3>1 DEF Inv, Progress
    <3> QED BY <2>1, <3>1, <3>2 DEF Copies, Uid
  <2>4. Unsent(r, c)
    BY <2>1 DEF Unsent, Copies
  <2> HIDE DEF x
  <2>5. \A s \in Rid, e \in Copies : Unsent(s, e)' => Unsent(s, e) /\ ~(s = r /\ e = c)
    BY <1>0, <2>1 DEF Unsent, Copies
  <2>6. ASSUME NEW s \in Rid, NEW e \in Copies, Unsent(s, e)', uid[s][e] # 0
        PROVE  uid[s][e] # uid[r][c]
    BY <2>3, <2>5, <2>6 DEF Inv, Uids
  <2>7. /\ \A d \in net : d.uid # x.uid
        /\ \A i \in 1 .. Len(inbox) : inbox[i].uid # x.uid
        /\ x.uid \notin confirmed
    BY <2>2, <2>3, <2>4 DEF OneTrace
  <2>8. net' = net \cup {x} /\ UNCHANGED <<inbox, confirmed, uid>>
    BY <2>1 DEF x, reactVars
  <2>9. /\ \A d, e \in net' : d.uid = e.uid => d = e
        /\ \A d \in net', i \in 1 .. Len(inbox) : d.uid # inbox[i].uid
        /\ \A d \in net' : d.uid \notin confirmed
    BY <2>7, <2>8 DEF OneTrace
  <2>10. ASSUME NEW s \in Rid, NEW e \in Copies, Unsent(s, e)', uid[s][e] # 0
         PROVE  /\ \A d \in net' : d.uid # uid[s][e]
                /\ \A i \in 1 .. Len(inbox) : inbox[i].uid # uid[s][e]
                /\ uid[s][e] \notin confirmed
    BY <2>2, <2>5, <2>6, <2>8, <2>10 DEF OneTrace
  <2>11. \A i, j \in 1 .. Len(inbox) : inbox[i].uid = inbox[j].uid => i = j
    BY DEF OneTrace
  <2>12. \A i \in 1 .. Len(inbox) : inbox[i].uid \notin confirmed
    BY DEF OneTrace
  <2> QED BY <2>8, <2>9, <2>10, <2>11, <2>12 DEF OneTrace
<1>3. CASE HandleUDP
  <2> DEFINE u == inbox[1].uid
  <2>1. /\ inbox # <<>> /\ inbox' = Tail(inbox) /\ confirmed' = confirmed \cup {u}
        /\ UNCHANGED <<net, uid, pc>>
    BY <1>0, <1>3 DEF HandleUDP, netVars
  <2> HIDE DEF u
  <2>2. ASSUME NEW i \in 1 .. Len(inbox')
        PROVE  i + 1 \in 2 .. Len(inbox) /\ inbox'[i] = inbox[i + 1] /\ 1 \in 1 .. Len(inbox)
    BY <1>0, <2>1, HeadTailProperties
  <2>3. ASSUME NEW i \in 1 .. Len(inbox')
        PROVE  inbox'[i].uid # u
    BY <2>2 DEF OneTrace, u
  <2>4. ASSUME NEW d \in net PROVE d.uid # u
    <3>1. 1 \in 1 .. Len(inbox)
      BY <1>0, <2>1
    <3> QED BY <3>1 DEF OneTrace, u
  <2>5. ASSUME NEW i \in 1 .. Len(inbox'), NEW j \in 1 .. Len(inbox'),
               inbox'[i].uid = inbox'[j].uid
        PROVE  i = j
    <3>1. i + 1 \in 1 .. Len(inbox) /\ j + 1 \in 1 .. Len(inbox)
          /\ inbox[i + 1].uid = inbox[j + 1].uid
      BY <2>2, <2>5
    <3>2. i + 1 = j + 1
      BY <3>1 DEF OneTrace
    <3> QED BY <3>2
  <2>6. ASSUME NEW s \in Rid, NEW c \in Copies, Unsent(s, c), uid[s][c] # 0
        PROVE  /\ u # uid[s][c]
               /\ \A i \in 1 .. Len(inbox') : inbox'[i].uid # uid[s][c]
    <3>1. 1 \in 1 .. Len(inbox)
      BY <1>0, <2>1
    <3> QED BY <2>2, <2>6, <3>1 DEF OneTrace, u
  <2>7. /\ \A d \in net, i \in 1 .. Len(inbox') : d.uid # inbox'[i].uid
        /\ \A i \in 1 .. Len(inbox') : inbox'[i].uid \notin confirmed'
        /\ \A d \in net : d.uid \notin confirmed'
    BY <2>1, <2>2, <2>3, <2>4 DEF OneTrace
  <2>8. ASSUME NEW s \in Rid, NEW c \in Copies, Unsent(s, c), uid[s][c] # 0
        PROVE  /\ \A d \in net : d.uid # uid[s][c]
               /\ uid[s][c] \notin confirmed'
    BY <2>1, <2>6, <2>8 DEF OneTrace
  <2>9. \A d, e \in net : d.uid = e.uid => d = e
    BY DEF OneTrace
  <2> QED BY <2>1, <2>5, <2>6, <2>7, <2>8, <2>9 DEF OneTrace, Unsent
<1>4. ASSUME NEW r \in Rid, Register(r)
      PROVE  OneTrace'
  <2>1. /\ pc[r] = "queued" /\ pc' = [pc EXCEPT ![r] = "sendOg"]
        /\ uid' = [uid EXCEPT ![r] = [c \in Copies |->
                     IF c = "og" THEN m_static_counter
                     ELSE IF IsWrite(r) THEN m_static_counter + 1 ELSE 0]]
        /\ UNCHANGED <<netVars, reactVars>>
    BY <1>4 DEF Register
  <2>2. UNCHANGED <<net, inbox, confirmed>>
    BY <2>1 DEF netVars, reactVars
  <2>3. /\ \A s \in Rid \ {r} : uid'[s] = uid[s] /\ pc'[s] = pc[s]
        /\ \A c \in Copies : uid'[r][c] = 0 \/ uid'[r][c] >= m_static_counter
    BY <1>0, <2>1 DEF Copies
  <2>4. /\ \A d \in net : d.uid \in Nat /\ d.uid < m_static_counter
        /\ \A i \in 1 .. Len(inbox) : inbox[i].uid \in Nat /\ inbox[i].uid < m_static_counter
        /\ \A u \in confirmed : u \in Nat /\ u < m_static_counter
    <3>1. \A d \in Datagram : d.uid \in Nat
      BY DEF Datagram, Uid
    <3>2. \A i \in 1 .. Len(inbox) : inbox[i] \in Datagram
      BY <1>0
    <3> QED BY <1>0, <3>1, <3>2 DEF Inv, Datagrams, DatagramOK, Confirmed, Uid
  <2>5. \A c \in Copies : uid'[r][c] # 0 =>
          /\ \A d \in net : d.uid # uid'[r][c]
          /\ \A i \in 1 .. Len(inbox) : inbox[i].uid # uid'[r][c]
          /\ uid'[r][c] \notin confirmed
    <3> SUFFICES ASSUME NEW c \in Copies, uid'[r][c] # 0
                 PROVE  /\ \A d \in net : d.uid # uid'[r][c]
                        /\ \A i \in 1 .. Len(inbox) : inbox[i].uid # uid'[r][c]
                        /\ uid'[r][c] \notin confirmed
      OBVIOUS
    <3>1. uid'[r][c] \in Nat /\ uid'[r][c] >= m_static_counter
      BY <1>0, <2>1, <2>3 DEF Copies
    <3> QED BY <1>0, <2>4, <3>1
  <2>6. ASSUME NEW s \in Rid, NEW c \in Copies, Unsent(s, c)', uid'[s][c] # 0
        PROVE  /\ \A d \in net : d.uid # uid'[s][c]
               /\ \A i \in 1 .. Len(inbox) : inbox[i].uid # uid'[s][c]
               /\ uid'[s][c] \notin confirmed
    <3>1. CASE s = r
      BY <2>5, <2>6, <3>1
    <3>2. CASE s # r
      BY <2>3, <2>6, <3>2 DEF OneTrace, Unsent
    <3> QED BY <3>1, <3>2
  <2> QED BY <2>2, <2>6 DEF OneTrace
<1>5. ASSUME NEW d \in net, Minion(d) \/ Lose(d)
      PROVE  OneTrace'
  <2>1. UNCHANGED <<inbox, confirmed, uid, pc>>
    BY <1>5 DEF Minion, MinionWrite, MinionRead, Lose, reactVars
  <2>2. CASE Lose(d)
    <3>1. net' \subseteq net
      BY <2>2 DEF Lose, Drop, Vanish
    <3> QED BY <2>1, <3>1 DEF OneTrace, Unsent
  <2>3. CASE Minion(d)
    <3>1. PICK x : x.uid = d.uid /\ Deliver(d, {x})
      <4>1. CASE MinionWrite(d)
        <5> DEFINE y == Message("MinionWriteMsg", d.uid, d.place, Zero)
        <5>1. y.uid = d.uid
          BY DEF Message
        <5>2. Deliver(d, {y})
          BY <4>1 DEF MinionWrite
        <5> QED BY <5>1, <5>2
      <4>2. CASE MinionRead(d)
        <5> DEFINE y == Message("MinionReadMsg", d.uid, d.place, FetchBlock(d.place))
        <5>1. y.uid = d.uid
          BY DEF Message
        <5>2. Deliver(d, {y})
          BY <4>2 DEF MinionRead
        <5> QED BY <5>1, <5>2
      <4> QED BY <2>3, <4>1, <4>2 DEF Minion
    <3>2. net' = (net \ {d}) \cup {x}
      BY <1>0, <3>1 DEF Deliver
    <3>3. \A y \in net' : \E z \in net : y.uid = z.uid
      BY <3>1, <3>2
    <3>4. \A y, z \in net' : y.uid = z.uid => y = z
      BY <3>1, <3>2 DEF OneTrace
    <3> QED BY <2>1, <3>3, <3>4 DEF OneTrace, Unsent
  <2> QED BY <1>5, <2>2, <2>3
<1>6. ASSUME NEW d \in net, Arrive(d)
      PROVE  OneTrace'
  <2>1. /\ net' = net \ {d} /\ inbox' = Append(inbox, d)
        /\ UNCHANGED <<confirmed, uid, pc>>
    BY <1>0, <1>6 DEF Arrive, Deliver
  <2>2. /\ Len(inbox') = Len(inbox) + 1 /\ inbox'[Len(inbox) + 1] = d
        /\ \A i \in 1 .. Len(inbox) : inbox'[i] = inbox[i]
    BY <1>0, <2>1
  <2>3. \A i \in 1 .. Len(inbox') : \/ i = Len(inbox) + 1 /\ inbox'[i] = d
                                    \/ i \in 1 .. Len(inbox) /\ inbox'[i] = inbox[i]
    <3>1. \A i \in 1 .. Len(inbox') : i = Len(inbox) + 1 \/ i \in 1 .. Len(inbox)
      BY <1>0, <2>2
    <3> TAKE i \in 1 .. Len(inbox')
    <3>2. CASE i = Len(inbox) + 1
      BY <2>2, <3>2
    <3>3. CASE i \in 1 .. Len(inbox)
      BY <2>2, <3>3
    <3> QED BY <3>1, <3>2, <3>3
  <2>4. \A i, j \in 1 .. Len(inbox') : inbox'[i].uid = inbox'[j].uid => i = j
    BY <2>3 DEF OneTrace
  <2>5. /\ \A x \in net', i \in 1 .. Len(inbox') : x.uid # inbox'[i].uid
        /\ \A i \in 1 .. Len(inbox') : inbox'[i].uid \notin confirmed
    BY <2>1, <2>3 DEF OneTrace
  <2>6. ASSUME NEW s \in Rid, NEW c \in Copies, Unsent(s, c), uid[s][c] # 0
        PROVE  \A i \in 1 .. Len(inbox') : inbox'[i].uid # uid[s][c]
    BY <2>3, <2>6 DEF OneTrace
  <2>7. /\ \A x, y \in net' : x.uid = y.uid => x = y
        /\ \A x \in net' : x.uid \notin confirmed
        /\ \A s \in Rid, c \in Copies : Unsent(s, c) /\ uid[s][c] # 0 =>
             /\ \A x \in net' : x.uid # uid[s][c]
             /\ uid[s][c] \notin confirmed
    BY <2>1 DEF OneTrace
  <2> QED BY <2>1, <2>4, <2>5, <2>6, <2>7 DEF OneTrace, Unsent
<1>7. CASE HandleNBD
  <2>1. /\ pc' = [pc EXCEPT ![Head(tcpUp)] = "queued"]
        /\ UNCHANGED <<net, inbox, confirmed, uid>>
    BY <1>7 DEF HandleNBD, netVars
  <2> QED BY <1>0, <1>1, <2>1
<1>8. ASSUME NEW r \in Rid, Timer(r)
      PROVE  OneTrace'
  <2>1. PICK p \in PCs \ {"sendOg", "sendBackup"} : pc' = [pc EXCEPT ![r] = p]
    <3>1. CASE ReadPoll(r)
      BY <3>1 DEF ReadPoll, PCs
    <3>2. CASE WritePollOg(r)
      BY <3>2 DEF WritePollOg, PCs
    <3>3. CASE WritePollBackup(r)
      BY <3>3 DEF WritePollBackup, PCs, Counting
    <3>4. CASE Count(r)
      BY <3>4, CountStep DEF PCs, Counting, Ending
    <3>5. CASE GiveUp(r)
      BY <3>5, GiveUpStep DEF PCs, Ending
    <3> QED BY <1>8, <3>1, <3>2, <3>3, <3>4, <3>5 DEF Timer, Count
  <2>2. UNCHANGED <<net, inbox, confirmed, uid>>
    BY <1>8, CountStep, GiveUpStep DEF Timer, Count, ReadPoll, WritePollOg, WritePollBackup,
                                       netVars, reactVars
  <2> QED BY <1>0, <1>1, <2>1, <2>2
<1>9. CASE \/ \E q \in Requests : Issue(q)
           \/ Complete \/ Select \/ Interrupted
           \/ \E u \in Uid : MapRace(u)
           \/ UNCHANGED vars
  <2>1. UNCHANGED <<net, inbox, confirmed, uid, pc>>
    BY <1>9 DEF Issue, Complete, Select, Interrupted, MapRace, vars, netVars, reactVars
  <2> QED BY <1>1, <2>1
<1>10. ASSUME NEW m \in Minions, MinionRestart(m)
       PROVE  OneTrace'
  <2>1. net' \subseteq net /\ UNCHANGED <<inbox, confirmed, uid, pc>>
    BY <1>10 DEF MinionRestart, Vanish, reactVars
  <2> QED BY <2>1 DEF OneTrace, Unsent
<1> QED BY <1>2, <1>3, <1>4, <1>5, <1>6, <1>7, <1>8, <1>9, <1>10 DEF Next, Reactor, Worker

(* The reply to the request that has none yet: it is the current one, and  *)
(* its reply is alone in the stream.                                       *)
LEMMA ReplyStep ==
  ASSUME Inv, Known, InStep, NEW r \in Rid, r <= issued, ~Replied(r), Replied(r)',
         \A s \in Rid \ {r} : Replied(s)' = Replied(s),
         UNCHANGED kernelVars,
         NEW val, NotifySucces(r, val, IF IsWrite(r) THEN StatusLen ELSE BlockLen)
  PROVE  /\ r = issued /\ nbd = "recv" /\ tcpDown = <<>>
         /\ Len(tcpDown') = IF IsWrite(r) THEN StatusLen ELSE BlockLen
         /\ \A i \in 1 .. Len(tcpDown') : tcpDown'[i] = [of |-> r, val |-> val]
         /\ InStep'
<1>1. r \in Nat /\ issued \in Nat /\ nbd \in {"idle", "recv"} /\ BlockLen \in Nat
      /\ StatusLen \in Nat
  BY DriveAssumption DEF Inv, TypeOK, Rid
<1>2. r = issued /\ nbd = "recv"
  <2>1. ~(r < issued) /\ ~(r = issued /\ nbd = "idle")
    BY DEF InStep
  <2> QED BY <1>1, <2>1
<1>3. tcpDown = <<>>
  BY <1>2 DEF InStep
<1> DEFINE n == IF IsWrite(r) THEN StatusLen ELSE BlockLen
           u == [i \in 1 .. n |-> [of |-> r, val |-> val]]
<1>4. n \in Nat
  BY <1>1
<1>5. tcpDown' = tcpDown \o u
  BY DEF NotifySucces
<1> HIDE DEF n
<1>6. u \in Seq({[of |-> r, val |-> val]}) /\ Len(u) = n
  BY <1>4
<1> HIDE DEF u
<1>7. tcpDown' = u
  BY <1>3, <1>5, <1>6
<1>8. Len(tcpDown') = n /\ \A i \in 1 .. n : tcpDown'[i] = [of |-> r, val |-> val]
  BY <1>6, <1>7
<1>9. InStep'
  BY <1>2, <1>8 DEF InStep, kernelVars, IsWrite, n
<1> QED BY <1>2, <1>3, <1>8, <1>9 DEF n

(* Who is replied to, when it is not the handler of a response or an AI.   *)
LEMMA InStepFrame ==
  ASSUME Inv, Known, InStep, UNCHANGED <<issued, nbd, req, tcpDown>>,
         \A s \in Rid : Replied(s)' = Replied(s)
  PROVE  InStep'
<1>1. nbd = "recv" => issued \in Rid
  BY DriveAssumption DEF Inv, TypeOK, Rid, Known
<1> QED BY <1>1 DEF InStep, IsWrite

(* The stream stays in step.                                               *)
LEMMA InStepNext ==
  ASSUME Inv, Known, Confirmed, Answered, OneTrace, InStep, [Next]_vars, dups' = 0, short' = 0
  PROVE  InStep'
<1>0. /\ uid \in [Rid -> [Copies -> 0 .. MaxUid]] /\ confirmed \subseteq Uid
      /\ issued \in Nat /\ issued <= MaxRequests /\ nbd \in {"idle", "recv"}
      /\ reply \in [Rid -> Replies \cup {"none"}] /\ tcpDown \in Seq(Unit)
      /\ Len(tcpDown) \in Nat /\ BlockLen \in Nat \ {0} /\ MaxRequests \in Nat
      /\ StatusLen \in 1 .. BlockLen /\ short \in Nat
      /\ req \in [Rid -> Request \cup {NoRequest}] /\ 0 \notin Uid
      /\ inbox \in Seq(Datagram) /\ m_static_counter \in Nat
  BY DriveAssumption DEF Inv, TypeOK, RMTypeOK, Uid
<1>1. ASSUME NEW q \in Requests, Issue(q)
      PROVE  InStep'
  <2>1. /\ nbd = "idle" /\ issued < MaxRequests /\ issued' = issued + 1 /\ nbd' = "recv"
        /\ req' = [req EXCEPT ![issued + 1] = q]
        /\ UNCHANGED <<tcpDown, confirmed, reply, uid>>
    BY <1>1 DEF Issue, reactVars, aiVars
  <2>2. issued + 1 \in Rid /\ issued + 1 > issued
    BY <1>0, <2>1 DEF Rid
  <2>3. uid[issued + 1] = Both(0) /\ reply[issued + 1] = "none"
    BY <2>2 DEF Inv, Progress
  <2>4. \A s \in Rid : s = issued + 1 => ~Replied(s)'
    BY <1>0, <2>1, <2>3 DEF Replied, IsWrite, Both, Copies
  <2>5. \A s \in Rid : s # issued + 1 => Replied(s)' = Replied(s)
    BY <1>0, <2>1 DEF Replied, IsWrite
  <2>6. ASSUME NEW s \in Rid, s < issued' \/ (s = issued' /\ nbd' = "idle")
        PROVE  Replied(s)'
    <3>1. s # issued + 1 /\ (s < issued \/ s = issued)
      BY <1>0, <2>1, <2>6 DEF Rid
    <3> QED BY <2>1, <2>5, <3>1 DEF InStep
  <2>7. tcpDown = <<>>
    BY <2>1 DEF InStep
  <2>8. ~Replied(issued)' /\ tcpDown' = <<>> /\ nbd' = "recv"
    BY <2>1, <2>2, <2>4, <2>7
  <2> QED BY <2>6, <2>8 DEF InStep
<1>2. CASE Complete
  <2>1. PICK n \in 1 .. Available :
        /\ nbd = "recv" /\ nbd' = "idle"
        /\ short' = IF n < Available THEN short + 1 ELSE short
        /\ tcpDown' = SubSeq(tcpDown, n + 1, Len(tcpDown))
        /\ UNCHANGED <<issued, confirmed, reply, uid, req>>
    BY <1>2 DEF Complete, reactVars, aiVars
  <2>7. n \in Nat /\ n >= 1 /\ Available \in Nat /\ n <= Available /\ Available <= Len(tcpDown)
    BY <1>0, <2>1 DEF Available
  <2>8. n = Available
    BY <1>0, <2>1, <2>7
  <2>2. Replied(issued)
    <3>1. tcpDown # <<>>
      BY <1>0, <2>7
    <3> QED BY <2>1, <3>1 DEF InStep
  <2>3. Len(tcpDown) = StatusLen \/ Len(tcpDown) = BlockLen
    BY <2>1, <2>2 DEF InStep
  <2>4. n = Len(tcpDown)
    BY <1>0, <2>3, <2>8 DEF Available
  <2>5. tcpDown' = <<>>
    BY <1>0, <2>1, <2>4
  <2>6. \A s \in Rid : Replied(s)' = Replied(s)
    BY <2>1 DEF Replied, IsWrite
  <2> QED BY <2>1, <2>2, <2>5, <2>6 DEF InStep
<1>3. CASE HandleUDP
  <2> DEFINE d == Head(inbox)
  <2>1. /\ inbox # <<>> /\ confirmed' = confirmed \cup {d.uid}
        /\ UNCHANGED <<kernelVars, reply, uid>>
        /\ \/ d.type = "MinionReadMsg" /\ NotifySucces(Owner(d.uid), d.data, BlockLen)
           \/ d.type = "MinionWriteMsg" /\ UNCHANGED tcpDown
    BY <1>3 DEF HandleUDP, aiVars
  <2>2. d = inbox[1] /\ 1 \in 1 .. Len(inbox) /\ d \in Datagram
    BY <1>0, <2>1
  <2>3. DatagramOK(d) /\ d.uid \in Uid /\ d.uid # 0 /\ d.uid \notin confirmed
    BY <1>0, <2>2 DEF Inv, Datagrams, OneTrace, Datagram
  <2> HIDE DEF d
  <2>4. PICK r \in Rid, c \in Copies : uid[r][c] = d.uid /\ r <= issued
    BY <2>3, OwnerExists DEF DatagramOK
  <2>5. \A s \in Rid, e \in Copies : uid[s][e] = d.uid => s = r /\ e = c
    BY <2>3, <2>4 DEF Inv, Uids
  <2>6. \A s \in Rid : s # r => Replied(s)' = Replied(s)
    BY <2>1, <2>5 DEF Replied, IsWrite, kernelVars, Copies
  <2>7. CASE d.type = "MinionWriteMsg" /\ UNCHANGED tcpDown
    <3>1. IsWrite(r)
      BY <2>3, <2>4, <2>7 DEF DatagramOK
    <3>2. \A s \in Rid : Replied(s)' = Replied(s)
      BY <2>1, <2>6, <3>1 DEF Replied, IsWrite, kernelVars
    <3> QED BY <2>1, <2>7, <3>2, InStepFrame DEF kernelVars
  <2>8. CASE d.type = "MinionReadMsg" /\ NotifySucces(Owner(d.uid), d.data, BlockLen)
    <3>1. ~IsWrite(r)
      BY <2>3, <2>4, <2>8 DEF DatagramOK
    <3>2. c = "og"
      BY <2>3, <2>4, <3>1 DEF Confirmed, Copies
    <3>3. Owner(d.uid) = r
      BY <2>4, <2>5 DEF Owner
    <3>4. ~Replied(r) /\ Replied(r)'
      BY <2>1, <2>3, <2>4, <3>1, <3>2 DEF Replied, IsWrite, kernelVars
    <3>5. NotifySucces(r, d.data, IF IsWrite(r) THEN StatusLen ELSE BlockLen)
      BY <2>8, <3>1, <3>3
    <3> QED BY <2>1, <2>4, <2>6, <3>4, <3>5, ReplyStep
  <2> QED BY <2>1, <2>7, <2>8
<1>4. ASSUME NEW r \in Rid, Register(r)
      PROVE  InStep'
  <2>1. /\ pc[r] = "queued"
        /\ uid' = [uid EXCEPT ![r] = [c \in Copies |->
                     IF c = "og" THEN m_static_counter
                     ELSE IF IsWrite(r) THEN m_static_counter + 1 ELSE 0]]
        /\ UNCHANGED <<kernelVars, tcpDown, confirmed, reply>>
    BY <1>4 DEF Register, tcpVars, reactVars, aiVars
  <2>2. uid[r] = Both(0) /\ reply[r] = "none"
    BY <2>1 DEF Inv, Progress
  <2>3. uid'[r]["og"] = m_static_counter /\ \A s \in Rid \ {r} : uid'[s] = uid[s]
    BY <1>0, <2>1 DEF Copies
  <2>4. m_static_counter \notin confirmed
    BY <1>0 DEF Confirmed
  <2>5. ~Replied(r) /\ ~Replied(r)'
    BY <1>0, <2>1, <2>2, <2>3, <2>4 DEF Replied, IsWrite, Both, Copies, kernelVars
  <2>6. \A s \in Rid : Replied(s)' = Replied(s)
    BY <2>1, <2>3, <2>5 DEF Replied, IsWrite, kernelVars
  <2> QED BY <2>1, <2>6, InStepFrame DEF kernelVars
<1>5. ASSUME NEW r \in Rid, NEW p \in BOOLEAN, NEW text \in Replies,
             pc[r] \in {"pollBackup", "notify"},
             reply' = [reply EXCEPT ![r] = IF p THEN text ELSE @],
             (p /\ NotifySucces(r, text, StatusLen)) \/ (~p /\ UNCHANGED tcpDown),
             UNCHANGED <<kernelVars, confirmed, uid>>
      PROVE  InStep'
  <2>1. IsWrite(r) /\ r <= issued
    <3>1. ~(r > issued) /\ IsWrite(r)
      BY <1>5 DEF Inv, Progress, WriteOnly
    <3> QED BY <1>0, <3>1 DEF Rid
  <2>2. reply[r] = "none"
    BY <1>5 DEF Answered, Ending
  <2>3. \A s \in Rid \ {r} : Replied(s)' = Replied(s)
    BY <1>0, <1>5 DEF Replied, IsWrite, kernelVars
  <2>4. CASE p
    <3>1. ~Replied(r) /\ Replied(r)'
      BY <1>0, <1>5, <2>1, <2>2, <2>4 DEF Replied, IsWrite, kernelVars, Replies, Failures
    <3>2. NotifySucces(r, text, IF IsWrite(r) THEN StatusLen ELSE BlockLen)
      BY <1>5, <2>1, <2>4
    <3> QED BY <1>5, <2>1, <2>3, <3>1, <3>2, ReplyStep
  <2>5. CASE ~p
    <3>1. \A s \in Rid : Replied(s)' = Replied(s)
      BY <1>0, <1>5, <2>5 DEF Replied, IsWrite, kernelVars
    <3> QED BY <1>5, <2>5, <3>1, InStepFrame DEF kernelVars
  <2> QED BY <2>4, <2>5
<1>6. ASSUME NEW r \in Rid, WritePollBackup(r)
      PROVE  InStep'
  <2> DEFINE both == seen[r]["og"] /\ HasResponse(uid[r]["backup"])
  <2>1. /\ pc[r] = "pollBackup"
        /\ (both /\ NotifySucces(r, "Success", StatusLen)) \/ (~both /\ UNCHANGED tcpDown)
        /\ reply' = [reply EXCEPT ![r] = IF both THEN "Success" ELSE @]
        /\ UNCHANGED <<kernelVars, confirmed, uid>>
    BY <1>6 DEF WritePollBackup, reactVars
  <2>2. both \in BOOLEAN /\ "Success" \in Replies
    BY DEF Replies, HasResponse, Inv, TypeOK, Copies
  <2> HIDE DEF both
  <2> QED BY <1>5, <2>1, <2>2
<1>7. ASSUME NEW r \in Rid, GiveUp(r)
      PROVE  InStep'
  <2>1. PICK text \in Failures :
        /\ pc[r] = "notify" /\ NotifySucces(r, text, StatusLen)
        /\ reply' = [reply EXCEPT ![r] = text]
        /\ UNCHANGED <<kernelVars, confirmed, uid>>
    BY <1>7, GiveUpStep DEF reactVars
  <2>2. reply' = [reply EXCEPT ![r] = IF TRUE THEN text ELSE @] /\ text \in Replies
    BY <2>1 DEF Replies
  <2> QED BY <1>5, <2>1, <2>2
<1>8. CASE UNCHANGED <<kernelVars, tcpDown, confirmed, reply, uid>>
  <2>1. \A s \in Rid : Replied(s)' = Replied(s)
    BY <1>8 DEF Replied, IsWrite, kernelVars
  <2> QED BY <1>8, <2>1, InStepFrame DEF kernelVars
<1>9. CASE \/ Select \/ Interrupted \/ HandleNBD
           \/ \E r \in Rid : \/ SendOg(r) \/ SendBackup(r) \/ ReadPoll(r) \/ WritePollOg(r)
                            \/ Count(r)
           \/ \E d \in net : Minion(d) \/ Arrive(d) \/ Lose(d)
           \/ \E u \in Uid : MapRace(u)
           \/ \E m \in Minions : MinionRestart(m)
           \/ UNCHANGED vars
  <2>1. UNCHANGED <<kernelVars, tcpDown, confirmed, reply, uid>>
    BY <1>9, CountStep
            DEF Select, Interrupted, HandleNBD, SendOg, SendBackup, ReadPoll, WritePollOg, Minion, MinionWrite, MinionRead, Arrive, Lose,
                MapRace, MinionRestart, vars, tcpVars, reactVars, aiVars
  <2> QED BY <1>8, <2>1
<1> QED BY <1>1, <1>2, <1>3, <1>4, <1>6, <1>7, <1>9 DEF Next, Reactor, Worker, Timer, Count

(* A write that was answered stays at its end.                             *)
LEMMA AnsweredNext == Inv /\ Answered /\ [Next]_vars => Answered'
BY NextMovesOn DEF Answered, MovesOn

(* A command whose response was not registered yet is one of the current   *)
(* request, or of a write that was given up.                               *)
LEMMA UnderWay ==
  ASSUME Inv, Confirmed, InStep, NEW u \in Uid, u < m_static_counter, u \notin confirmed
  PROVE  \E r \in Rid, c \in Copies :
           /\ uid[r][c] = u /\ r <= issued /\ req[r] \in Request /\ (IsWrite(r) \/ c = "og")
           /\ \/ r = issued /\ nbd = "recv"
              \/ IsWrite(r) /\ reply[r] \in Failures
<1>1. PICK r \in Rid, c \in Copies : uid[r][c] = u /\ r <= issued /\ req[r] \in Request
  BY OwnerExists
<1>2. u # 0 /\ r \in Int /\ issued \in Int /\ nbd \in {"idle", "recv"}
  BY DEF Uid, Rid, Inv, TypeOK
<1>3. IsWrite(r) \/ c = "og"
  BY <1>1, <1>2 DEF Confirmed, Copies
<1>4. ASSUME ~(r = issued /\ nbd = "recv")
      PROVE  IsWrite(r) /\ reply[r] \in Failures
  <2>1. Replied(r)
    BY <1>1, <1>2, <1>4 DEF InStep
  <2>2. IsWrite(r)
    BY <1>1, <1>3, <2>1 DEF Replied
  <2>3. reply[r] # "none" /\ reply[r] # "Success"
    BY <1>1, <2>1, <2>2 DEF Replied, Confirmed
  <2> QED BY <2>2, <2>3 DEF Inv, TypeOK, Replies
<1> QED BY <1>1, <1>3, <1>4

(* The two places of a block are on two minions.                           *)
LEMMA TwoMinions ==
  ASSUME NEW o \in Blocks, NEW c \in Copies, NEW e \in Copies,
         PlaceOf(c, o).minion = PlaceOf(e, o).minion
  PROVE  c = e
<1>1. o \in 0 .. (MEMORY - 1)
  BY DriveAssumption
<1> QED BY <1>1, PlacementTheorem DEF PlaceOf, Copies

(* What is under way to one minion carries one uid.                        *)
LEMMA OneCommand ==
  ASSUME Inv, Confirmed, Sequential
  PROVE  OneCommandPerMinion
<1> SUFFICES ASSUME dups = 0, short = 0,
                    \A r \in Rid : reply[r] \notin Failures, NEW m \in Minions,
                    NEW d \in net, NEW e \in net, ToMinion(d), ToMinion(e),
                    d.place.minion = m, e.place.minion = m
             PROVE  d = e
  BY DEF OneCommandPerMinion
<1>1. OneTrace /\ InStep
  BY DEF Sequential
<1>2. ASSUME NEW x \in net, ToMinion(x)
      PROVE  \E c \in Copies : /\ uid[issued][c] = x.uid /\ issued \in Rid
                               /\ req[issued] \in Request
                               /\ x.place = PlaceOf(c, req[issued].offset)
  <2>1. x.uid \in Uid /\ DatagramOK(x) /\ x.uid < m_static_counter /\ x.uid \notin confirmed
    BY <1>1 DEF Inv, TypeOK, Datagrams, DatagramOK, Datagram, OneTrace
  <2>2. PICK r \in Rid, c \in Copies : uid[r][c] = x.uid /\ r = issued /\ req[r] \in Request
    BY <1>1, <2>1, UnderWay
  <2> QED BY <1>2, <2>1, <2>2 DEF DatagramOK
<1>3. PICK c \in Copies : /\ uid[issued][c] = d.uid /\ issued \in Rid /\ req[issued] \in Request
                          /\ d.place = PlaceOf(c, req[issued].offset)
  BY <1>2
<1>4. PICK f \in Copies : uid[issued][f] = e.uid /\ e.place = PlaceOf(f, req[issued].offset)
  BY <1>2
<1>5. c = f
  BY <1>3, <1>4, TwoMinions DEF Request
<1>6. d.uid = e.uid
  BY <1>3, <1>4, <1>5
<1> QED BY <1>1, <1>6 DEF OneTrace

(* Recive takes the whole reply to its own request.                        *)
LEMMA RepliesNext ==
  ASSUME Inv, Known, Sequential, RepliesInStep, [Next]_vars
  PROVE  RepliesInStep'
<1> SUFFICES ASSUME dups' = 0, short' = 0 PROVE RepliesInStep'
  BY DEF RepliesInStep
<1>0. /\ dups = 0 /\ short = 0 /\ InStep /\ outcome \in [Rid -> Seq(Unit)] /\ issued \in Nat
      /\ tcpDown \in Seq(Unit) /\ Len(tcpDown) \in Nat
      /\ req \in [Rid -> Request \cup {NoRequest}]
      /\ BlockLen \in Nat \ {0} /\ StatusLen \in 1 .. BlockLen
  BY CountsGrow, DriveAssumption DEF Sequential, Inv, TypeOK
<1>1. ASSUME NEW q \in Requests, Issue(q)
      PROVE  RepliesInStep'
  <2>1. req' = [req EXCEPT ![issued + 1] = q] /\ outcome' = outcome
    BY <1>1 DEF Issue
  <2>2. \A r \in Rid : outcome[r] # <<>> => r # issued + 1
    BY <1>0 DEF Known, Rid
  <2>3. \A r \in Rid : outcome[r] # <<>> => req'[r] = req[r]
    BY <1>0, <2>1, <2>2
  <2> QED BY <1>0, <2>1, <2>3 DEF RepliesInStep, IsWrite
<1>2. CASE Complete
  <2>1. PICK n \in 1 .. Available :
        /\ nbd = "recv" /\ req' = req
        /\ short' = IF n < Available THEN short + 1 ELSE short
        /\ outcome' = [outcome EXCEPT ![issued] = SubSeq(tcpDown, 1, n)]
    BY <1>2 DEF Complete
  <2>7. n \in Nat /\ n >= 1 /\ Available \in Nat /\ n <= Available /\ Available <= Len(tcpDown)
    BY <1>0, <2>1 DEF Available
  <2>8. n = Available
    BY <1>0, <2>1, <2>7
  <2>2. Replied(issued)
    <3>1. tcpDown # <<>>
      BY <1>0, <2>7
    <3> QED BY <1>0, <2>1, <3>1 DEF InStep
  <2>3. /\ Len(tcpDown) = IF IsWrite(issued) THEN StatusLen ELSE BlockLen
        /\ \A i \in 1 .. Len(tcpDown) : tcpDown[i].of = issued
    BY <1>0, <2>1, <2>2 DEF InStep
  <2>4. n = Len(tcpDown)
    BY <1>0, <2>3, <2>8 DEF Available
  <2>5. SubSeq(tcpDown, 1, n) = tcpDown
    BY <1>0, <2>4
  <2>6. ASSUME NEW r \in Rid, outcome'[r] # <<>>
        PROVE  /\ \A i \in DOMAIN outcome'[r] : outcome'[r][i].of = r
               /\ Len(outcome'[r]) = IF IsWrite(r) THEN StatusLen ELSE BlockLen
    <3>1. CASE r = issued
      <4>1. outcome'[r] = tcpDown /\ DOMAIN tcpDown = 1 .. Len(tcpDown)
        BY <1>0, <2>1, <2>5, <3>1
      <4> QED BY <2>3, <3>1, <4>1
    <3>2. CASE r # issued
      <4>1. outcome'[r] = outcome[r]
        BY <1>0, <2>1, <3>2
      <4> QED BY <1>0, <2>6, <4>1 DEF RepliesInStep
    <3> QED BY <3>1, <3>2
  <2> QED BY <2>1, <2>6 DEF RepliesInStep, IsWrite
<1>3. CASE UNCHANGED kernelVars
  BY <1>0, <1>3 DEF RepliesInStep, IsWrite, kernelVars
<1> QED BY <1>1, <1>2, <1>3, KernelSteps

-----------------------------------------------------------------------------
(* The requests in order.                                                  *)
Order == Inv /\ Known /\ Confirmed /\ Answered /\ Sequential /\ RepliesInStep

(* Order is inductive.                                                     *)
LEMMA OrderInit == Init => Order
<1> SUFFICES ASSUME Init PROVE Order
  OBVIOUS
<1>1. Inv
  BY InitInv
<1>2. Known
  BY DriveAssumption DEF Init, Known, Rid
<1>3. Confirmed
  BY <1>1 DEF Init, RMInit, Confirmed, HasResponse, Both, Copies
<1>4. Answered /\ RepliesInStep
  BY DEF Init, Answered, RepliesInStep
<1>5. OneTrace
  BY DEF Init, NetInit, OneTrace, Unsent
<1>6. InStep
  BY DEF Init, InStep, Rid
<1> QED BY <1>1, <1>2, <1>3, <1>4, <1>5, <1>6 DEF Order, Sequential

LEMMA OrderNext == Order /\ [Next]_vars => Order'
<1> SUFFICES ASSUME Order, [Next]_vars PROVE Order'
  OBVIOUS
<1> USE DEF Order
<1>1. Inv' /\ Known' /\ Confirmed' /\ Answered'
  BY NextInv, KnownNext, ConfirmedNext, AnsweredNext
<1>2. Sequential'
  <2> SUFFICES ASSUME dups' = 0, short' = 0 PROVE OneTrace' /\ InStep'
    BY DEF Sequential
  <2>1. OneTrace /\ InStep
    BY CountsGrow DEF Sequential
  <2> QED BY <2>1, OneTraceNext, InStepNext
<1>3. RepliesInStep'
  BY RepliesNext
<1> QED BY <1>1, <1>2, <1>3

(* As long as the network repeats nothing and no recv is short, Recive     *)
(* returns for every request its own reply and the whole of it, for any    *)
(* number of requests, whatever is lost, reordered, given up or restarted: *)
(* the TCP stream between WriteAIFunc, ResponseProxy and NBDRead/NBDWrite  *)
(* carries no request number.                                              *)
THEOREM InStepTheorem == Spec => []RepliesInStep
<1>1. Order => RepliesInStep
  BY DEF Order
<1> QED BY <1>1, OrderInit, OrderNext, PTL DEF Spec

(* The workers of a minion never meet at its fstream (GetBinFile) as long  *)
(* as no write is given up and no datagram repeated: for any number of     *)
(* requests at most one command is under way to each minion.               *)
THEOREM OneCommandTheorem == Spec => []OneCommandPerMinion
<1>1. Order => OneCommandPerMinion
  BY OneCommand DEF Order
<1> QED BY <1>1, OrderInit, OrderNext, PTL DEF Spec

-----------------------------------------------------------------------------
(***************************************************************************)
(* The contents of the drive.  A block of a file holds what the last       *)
(* request but one, or the current one, has written there (Contents): no   *)
(* older write to the block is under way, unless it was given up.  So what *)
(* a minion reads is fresh, and stays so on its way to the NBD thread      *)
(* (ReadData), since the requests before a read and their replies do not   *)
(* change any more.                                                        *)
(***************************************************************************)

(* No write to block o was given up.                                       *)
NoFailureAt(o) == \A w \in Rid : IsWrite(w) /\ req[w].offset = o => reply[w] \notin Failures

(* What copy c of block o holds: what the current request n has written    *)
(* there, or else what was last written before it.                         *)
Holds(o, c, n) ==
  IF n > 0 /\ IsWrite(n) /\ req[n].offset = o /\ Stored(n, c)
  THEN req[n].data ELSE LastWritten(o, n)

Contents ==
  \A o \in Blocks, c \in Copies, n \in 0 .. MaxRequests :
    n = issued /\ NoFailureAt(o) => FetchBlock(PlaceOf(c, o)) = Holds(o, c, n)

(* Every write to block o before request r was confirmed.                  *)
AllConfirmed(o, r) == \A w \in WritesTo(o, r) : reply[w] = "Success"

(* What a read is answered with.                                           *)
Fresh(r, val) ==
  \A o \in Blocks : req[r].offset = o /\ AllConfirmed(o, r) => val = LastWritten(o, r)

(* The data on the way to the NBD thread, and what the NBD thread got.     *)
ReadData ==
  /\ \A r \in Rid, c \in Copies, d \in net :
       d.type = "MinionReadMsg" /\ d.uid = uid[r][c] => Fresh(r, d.data)
  /\ \A r \in Rid, c \in Copies, i \in 1 .. Len(inbox) :
       inbox[i].type = "MinionReadMsg" /\ inbox[i].uid = uid[r][c] => Fresh(r, inbox[i].data)
  /\ \A r \in Rid, i \in 1 .. Len(tcpDown) :
       r = issued /\ ~IsWrite(r) => Fresh(r, tcpDown[i].val)
  /\ \A r \in Rid : \A i \in 1 .. Len(outcome[r]) :
       ~IsWrite(r) => Fresh(r, outcome[r][i].val)

Durable == dups = 0 /\ short = 0 /\ restarts = 0 => Contents /\ ReadData

(* Minions execute only commands that were registered.                     *)
StoredOld == \A w \in stored : w.uid < m_static_counter

(* A set of numbers up to n has a largest one.                             *)
LEMMA MaxExists ==
  ASSUME NEW n \in Nat, NEW S \in SUBSET (1 .. n), S # {}
  PROVE  \E w \in S : \A x \in S : x <= w
<1> DEFINE R == OpToRel(<, Nat)
           T == {n - w : w \in S}
<1>1. IsWellFoundedOn(R, Nat)
  BY NatLessThanWellFounded
<1>2. T \subseteq Nat /\ T # {}
  <2>1. \A w \in S : w \in 1 .. n
    OBVIOUS
  <2>2. \A w \in S : n - w \in Nat
    BY <2>1
  <2>3. PICK w \in S : TRUE
    OBVIOUS
  <2>4. n - w \in T
    BY <2>3
  <2> QED BY <2>2, <2>4
<1>3. \A x, y \in Nat : x < y => <<x, y>> \in R
  BY DEF OpToRel
<1> HIDE DEF R, T
<1>4. PICK t \in T : \A y \in T : ~(<<y, t>> \in R)
  BY <1>1, <1>2, WFMin
<1>5. PICK w \in S : t = n - w
  BY <1>4 DEF T
<1>6. ASSUME NEW x \in S PROVE x <= w
  <2>1. n - x \in T
    BY DEF T
  <2>2. ~(n - x < t)
    BY <1>2, <1>3, <1>4, <2>1
  <2> QED BY <1>5, <2>2
<1> QED BY <1>6

(* What the last write is.                                                 *)
LEMMA LastWrittenIs ==
  ASSUME NEW o, NEW r \in Nat, NEW w \in WritesTo(o, r), \A x \in WritesTo(o, r) : x <= w
  PROVE  LastWritten(o, r) = req[w].data
<1> DEFINE W == WritesTo(o, r)
           m == CHOOSE x \in W : \A y \in W : y <= x
<1>1. W \subseteq Int
  BY DEF WritesTo
<1>2. m \in W /\ \A y \in W : y <= m
  OBVIOUS
<1>3. m = w
  <2>1. m <= w /\ w <= m /\ m \in Int /\ w \in Int
    BY <1>1, <1>2
  <2> QED BY <2>1
<1>4. LastWritten(o, r) = req[m].data
  BY DEF LastWritten
<1> QED BY <1>3, <1>4

(* One request later it is that request, if it writes to the block.        *)
LEMMA LastWrittenStep ==
  ASSUME NEW o, NEW r \in Nat \ {0}
  PROVE  LastWritten(o, r + 1) = IF IsWrite(r) /\ req[r].offset = o
                                 THEN req[r].data ELSE LastWritten(o, r)
<1>1. CASE IsWrite(r) /\ req[r].offset = o
  <2>1. r + 1 \in Nat /\ r \in WritesTo(o, r + 1) /\ \A x \in WritesTo(o, r + 1) : x <= r
    BY <1>1 DEF WritesTo
  <2> QED BY <1>1, <2>1, LastWrittenIs
<1>2. CASE ~(IsWrite(r) /\ req[r].offset = o)
  <2>1. WritesTo(o, r + 1) = WritesTo(o, r)
    BY <1>2 DEF WritesTo
  <2>2. CASE WritesTo(o, r) = {}
    BY <1>2, <2>1, <2>2 DEF LastWritten
  <2>3. CASE WritesTo(o, r) # {}
    <3>1. WritesTo(o, r) \in SUBSET (1 .. r)
      BY DEF WritesTo
    <3>2. PICK w \in WritesTo(o, r) : \A x \in WritesTo(o, r) : x <= w
      BY <2>3, <3>1, MaxExists
    <3>3. LastWritten(o, r) = req[w].data
      BY <3>2, LastWrittenIs
    <3>4. LastWritten(o, r + 1) = req[w].data
      BY <2>1, <3>2, LastWrittenIs
    <3> QED BY <1>2, <3>3, <3>4
  <2> QED BY <2>2, <2>3
<1> QED BY <1>1, <1>2

(* It depends on the requests before r only.                               *)
LEMMA LastWrittenStable ==
  ASSUME NEW o, NEW r \in Nat, \A w \in 1 .. (r - 1) : req'[w] = req[w]
  PROVE  WritesTo(o, r)' = WritesTo(o, r) /\ LastWritten(o, r)' = LastWritten(o, r)
<1> DEFINE W == WritesTo(o, r)
           m == CHOOSE x \in W : \A y \in W : y <= x
<1>1. WritesTo(o, r)' = W
  BY DEF WritesTo, IsWrite
<1>2. LastWritten(o, r) = IF W = {} THEN Zero ELSE req[m].data
  BY DEF LastWritten
<1>3. LastWritten(o, r)' = IF W = {} THEN Zero ELSE req'[m].data
  BY <1>1 DEF LastWritten
<1>4. CASE W = {}
  BY <1>1, <1>2, <1>3, <1>4
<1>5. CASE W # {}
  <2>1. W \in SUBSET (1 .. r)
    BY DEF WritesTo
  <2>2. \E x \in W : \A y \in W : y <= x
    BY <1>5, <2>1, MaxExists
  <2>3. m \in W
    BY <2>2
  <2>4. m \in 1 .. (r - 1)
    BY <2>3 DEF WritesTo
  <2>5. req'[m] = req[m]
    BY <2>4
  <2> QED BY <1>1, <1>2, <1>3, <1>5, <2>5
<1> QED BY <1>4, <1>5

(* Writing a block changes that block of that file and no other.           *)
LEMMA StoreEffect ==
  ASSUME StoreTypeOK, NEW p \in Places, NEW v, StoreBlock(p, v), NEW q \in Places
  PROVE  FetchBlock(q)' = IF q = p THEN v ELSE FetchBlock(q)
<1>1. /\ p.minion \in Minions /\ p.offset \in Offsets
      /\ q.minion \in Minions /\ q.offset \in Offsets
      /\ (p.minion = q.minion /\ p.offset = q.offset => p = q)
  BY DEF Places
<1>2. GetBinFile(p.minion) = IF is_init[p.minion] THEN [o \in Offsets |-> Zero]
                                                  ELSE files[p.minion]
  BY DEF GetBinFile
<1>3. \E S : GetBinFile(p.minion) \in [Offsets -> S]
  <2>1. files[p.minion] \in [Offsets -> Values] /\ [o \in Offsets |-> Zero] \in [Offsets -> Values]
    BY <1>1, StoreAssumption DEF StoreTypeOK
  <2> QED BY <1>2, <2>1
<1>4. /\ files' = [files EXCEPT ![p.minion] = [GetBinFile(p.minion) EXCEPT ![p.offset] = v]]
      /\ is_init' = [is_init EXCEPT ![p.minion] = FALSE]
  BY DEF StoreBlock
<1>5. CASE q.minion = p.minion
  <2>1. files'[q.minion] = [GetBinFile(p.minion) EXCEPT ![p.offset] = v] /\ ~is_init'[q.minion]
    BY <1>1, <1>4, <1>5 DEF StoreTypeOK
  <2>2. FetchBlock(q)' = [GetBinFile(p.minion) EXCEPT ![p.offset] = v][q.offset]
    BY <2>1 DEF FetchBlock, GetBinFile
  <2>3. FetchBlock(q) = GetBinFile(p.minion)[q.offset]
    BY <1>5 DEF FetchBlock
  <2> QED BY <1>1, <1>3, <1>5, <2>2, <2>3
<1>6. CASE q.minion # p.minion
  <2>1. files'[q.minion] = files[q.minion] /\ is_init'[q.minion] = is_init[q.minion]
    BY <1>1, <1>4, <1>6 DEF StoreTypeOK
  <2>2. FetchBlock(q)' = FetchBlock(q)
    BY <2>1 DEF FetchBlock, GetBinFile
  <2> QED BY <1>6, <2>2
<1> QED BY <1>5, <1>6

(* Opening a file changes nothing that a read can see.                     *)
LEMMA TouchEffect ==
  ASSUME StoreTypeOK, NEW m \in Minions, Touch(m), NEW q \in Places
  PROVE  FetchBlock(q)' = FetchBlock(q)
<1>1. q.minion \in Minions
  BY DEF Places
<1>2. CASE q.minion = m
  <2>1. files'[q.minion] = GetBinFile(q.minion) /\ ~is_init'[q.minion]
    BY <1>1, <1>2 DEF StoreTypeOK, Touch
  <2> QED BY <2>1 DEF FetchBlock, GetBinFile
<1>3. CASE q.minion # m
  <2>1. files'[q.minion] = files[q.minion] /\ is_init'[q.minion] = is_init[q.minion]
    BY <1>1, <1>3 DEF StoreTypeOK, Touch
  <2> QED BY <2>1 DEF FetchBlock, GetBinFile
<1> QED BY <1>2, <1>3

(* No two copies of blocks share a place.                                  *)
LEMMA OwnPlace ==
  ASSUME NEW o \in Blocks, NEW p \in Blocks, NEW c \in Copies, NEW e \in Copies,
         PlaceOf(c, o) = PlaceOf(e, p)
  PROVE  o = p /\ c = e
<1>1. o \in 0 .. (MEMORY - 1) /\ p \in 0 .. (MEMORY - 1)
  BY DriveAssumption
<1> DEFINE i == IF c = "og" THEN 1 ELSE 2
           j == IF e = "og" THEN 1 ELSE 2
<1>2. PlaceOf(c, o) = OffsetToProxy(o)[i] /\ PlaceOf(e, p) = OffsetToProxy(p)[j]
  BY DEF PlaceOf
<1>3. i \in 1 .. 2 /\ j \in 1 .. 2
  OBVIOUS
<1> HIDE DEF i, j
<1>4. o = p /\ i = j
  BY <1>1, <1>2, <1>3, DisjointTheorem
<1> QED BY <1>4 DEF i, j, Copies

(* What is past does not change: the requests issued so far, and the       *)
(* replies to those before the current one.                                *)
LEMMA PastStable ==
  ASSUME Inv, Answered, InStep, [Next]_vars, NEW r \in Rid, r <= issued, NEW o
  PROVE  /\ req'[r] = req[r] /\ issued <= issued'
         /\ LastWritten(o, r)' = LastWritten(o, r)
         /\ AllConfirmed(o, r)' <=> AllConfirmed(o, r)
<1>0. issued \in Nat /\ r \in Nat /\ issued <= MaxRequests /\ MaxRequests \in Nat
  BY DriveAssumption DEF Inv, TypeOK, Rid
<1>1. /\ issued <= issued'
      /\ \A w \in Rid : w <= issued => req'[w] = req[w]
  <2>1. CASE \E q \in Requests : Issue(q)
    BY <1>0, <2>1 DEF Issue, Inv, TypeOK, Rid
  <2>2. CASE Complete \/ UNCHANGED kernelVars
    BY <1>0, <2>2 DEF Complete, kernelVars
  <2> QED BY <2>1, <2>2, KernelSteps
<1>2. \A w \in 1 .. (r - 1) : w \in Rid /\ w < issued /\ req'[w] = req[w]
  BY <1>0, <1>1 DEF Rid
<1>3. WritesTo(o, r)' = WritesTo(o, r) /\ LastWritten(o, r)' = LastWritten(o, r)
  BY <1>0, <1>2, LastWrittenStable
<1>4. ASSUME NEW w \in WritesTo(o, r)
      PROVE  reply'[w] = reply[w]
  <2>1. w \in 1 .. (r - 1) /\ IsWrite(w)
    BY DEF WritesTo
  <2>2. w \in Rid /\ reply[w] # "none"
    BY <1>2, <2>1 DEF InStep, Replied
  <2> QED BY <2>2, NextMovesOn DEF Answered, MovesOn
<1>5. AllConfirmed(o, r)' <=> AllConfirmed(o, r)
  BY <1>3, <1>4 DEF AllConfirmed
<1> QED BY <1>1, <1>3, <1>5

(* Minions execute registered commands only.                               *)
LEMMA StoredOldNext == Inv /\ StoredOld /\ [Next]_vars => StoredOld'
<1> SUFFICES ASSUME Inv, StoredOld, [Next]_vars PROVE StoredOld'
  OBVIOUS
<1>0. m_static_counter \in Nat /\ stored \subseteq [uid : Uid, place : Places, data : Values]
  BY DEF Inv, TypeOK, RMTypeOK
<1>1. ASSUME NEW r \in Rid, Register(r)
      PROVE  StoredOld'
  <2>1. /\ m_static_counter' = m_static_counter + (IF IsWrite(r) THEN 2 ELSE 1)
        /\ stored' = stored
    BY <1>1 DEF Register, RegisterCommands
  <2>2. \A w \in stored : w.uid \in Int
    BY <1>0 DEF Uid
  <2> QED BY <1>0, <2>1, <2>2 DEF StoredOld
<1>2. ASSUME NEW d \in net, MinionWrite(d)
      PROVE  StoredOld'
  <2>1. d.uid < m_static_counter
    BY DEF Inv, Datagrams, DatagramOK
  <2> QED BY <1>2, <2>1 DEF StoredOld, MinionWrite, rmVars
<1>3. CASE UNCHANGED <<stored, m_static_counter>>
  BY <1>3 DEF StoredOld
<1>4. \/ \E r \in Rid : Register(r)
      \/ \E d \in net : MinionWrite(d)
      \/ UNCHANGED <<stored, m_static_counter>>
  BY DEF Next, Issue, Complete, Reactor, Select, HandleNBD, HandleUDP, Interrupted, Worker, SendOg,
         SendBackup, Timer, ReadPoll, WritePollOg, WritePollBackup, LoadCounter, StoreCounter,
           TestCounter, GiveUp, ResetCounter, Minion, MinionRead, Arrive, Lose, MapRace, MinionRestart, vars, rmVars,
         RegisterResponse, PollEntry, LoseEntry
<1> QED BY <1>1, <1>2, <1>3, <1>4

(* The copies of a block, as long as no write to it was given up.          *)
LEMMA ContentsNext ==
  ASSUME Inv, Known, Confirmed, Answered, StoredOld, OneTrace, InStep, Contents,
         [Next]_vars, restarts' = 0
  PROVE  Contents'
<1>0. /\ issued \in Nat /\ issued <= MaxRequests /\ MaxRequests \in Nat /\ restarts \in Nat
      /\ uid \in [Rid -> [Copies -> 0 .. MaxUid]] /\ m_static_counter \in Nat
      /\ req \in [Rid -> Request \cup {NoRequest}] /\ 0 \notin Uid
      /\ reply \in [Rid -> Replies \cup {"none"}] /\ StoreTypeOK
      /\ stored \subseteq [uid : Uid, place : Places, data : Values]
  BY DriveAssumption DEF Inv, TypeOK, RMTypeOK, StoreTypeOK, Uid
<1>1. \A w \in Rid : reply[w] # "none" => reply'[w] = reply[w]
  BY NextMovesOn DEF Answered, MovesOn
<1>2. "none" \notin Failures
  BY DEF Failures
<1>3. ASSUME issued' = issued, req' = req,
             \A q \in Places : FetchBlock(q)' = FetchBlock(q),
             \A n \in Rid, c \in Copies : n = issued => (Stored(n, c)' <=> Stored(n, c))
      PROVE  Contents'
  <2> SUFFICES ASSUME NEW o \in Blocks, NEW c \in Copies, NEW n \in 0 .. MaxRequests,
                      n = issued, NoFailureAt(o)'
               PROVE  FetchBlock(PlaceOf(c, o))' = Holds(o, c, n)'
    BY <1>3 DEF Contents
  <2>1. NoFailureAt(o)
    BY <1>1, <1>2, <1>3 DEF NoFailureAt, IsWrite
  <2>2. LastWritten(o, n)' = LastWritten(o, n)
    BY <1>3, LastWrittenStable
  <2>3. Holds(o, c, n)' = Holds(o, c, n)
    <3>1. CASE n > 0
      <4>1. n \in Rid
        BY <3>1 DEF Rid
      <4>2. Stored(n, c)' <=> Stored(n, c)
        BY <1>3, <4>1
      <4> QED BY <1>3, <2>2, <4>2 DEF Holds, IsWrite
    <3>2. CASE ~(n > 0)
      BY <2>2, <3>2 DEF Holds
    <3> QED BY <3>1, <3>2
  <2>4. PlaceOf(c, o) \in Places
    BY PlaceType
  <2>5. FetchBlock(PlaceOf(c, o))' = FetchBlock(PlaceOf(c, o))
    BY <1>3, <2>4
  <2> QED BY <2>1, <2>3, <2>5 DEF Contents
<1>4. ASSUME NEW q \in Requests, Issue(q)
      PROVE  Contents'
  <2>1. /\ nbd = "idle" /\ issued < MaxRequests /\ issued' = issued + 1
        /\ req' = [req EXCEPT ![issued + 1] = q]
        /\ UNCHANGED <<storeVars, reply, uid, stored>>
    BY <1>4 DEF Issue, aiVars
  <2> SUFFICES ASSUME NEW o \in Blocks, NEW c \in Copies, NEW n \in 0 .. MaxRequests,
                      n = issued', NoFailureAt(o)'
               PROVE  FetchBlock(PlaceOf(c, o))' = Holds(o, c, n)'
    BY DEF Contents
  <2>2. n \in Rid /\ n = issued + 1 /\ n > issued /\ \A w \in 1 .. (n - 1) : req'[w] = req[w]
    BY <1>0, <2>1 DEF Rid
  <2>3. uid[n] = Both(0) /\ reply[n] = "none"
    BY <2>2 DEF Inv, Progress
  <2>4. ~Stored(n, c)'
    BY <1>0, <2>1, <2>3 DEF Stored, Both
  <2>5. Holds(o, c, n)' = LastWritten(o, n)'
    BY <2>4 DEF Holds
  <2>6. LastWritten(o, n)' = LastWritten(o, n)
    BY <2>2, LastWrittenStable DEF Rid
  <2>7. NoFailureAt(o)
    <3> SUFFICES ASSUME NEW w \in Rid, IsWrite(w), req[w].offset = o
                 PROVE  reply[w] \notin Failures
      BY DEF NoFailureAt
    <3>1. CASE w = n
      BY <1>2, <2>3, <3>1
    <3>2. CASE w # n
      <4>1. req'[w] = req[w] /\ reply'[w] = reply[w]
        BY <1>0, <2>1, <2>2, <3>2
      <4> QED BY <4>1 DEF NoFailureAt, IsWrite
    <3> QED BY <3>1, <3>2
  <2>8. FetchBlock(PlaceOf(c, o)) = Holds(o, c, issued)
    BY <1>0, <2>7 DEF Contents
  <2>9. Holds(o, c, issued) = LastWritten(o, issued + 1)
    <3>1. CASE issued = 0
      <4>1. WritesTo(o, issued) = {} /\ WritesTo(o, issued + 1) = {}
        BY <3>1 DEF WritesTo
      <4> QED BY <3>1, <4>1 DEF Holds, LastWritten
    <3>2. CASE issued > 0
      <4>1. issued \in Nat \ {0} /\ issued \in Rid
        BY <1>0, <3>2 DEF Rid
      <4>2. LastWritten(o, issued + 1) = IF IsWrite(issued) /\ req[issued].offset = o
                                         THEN req[issued].data ELSE LastWritten(o, issued)
        BY <4>1, LastWrittenStep
      <4>3. IsWrite(issued) /\ req[issued].offset = o => Stored(issued, c)
        <5> HAVE IsWrite(issued) /\ req[issued].offset = o
        <5>1. Replied(issued)
          BY <2>1, <4>1 DEF InStep
        <5>2. reply[issued] \notin Failures /\ reply[issued] # "none"
          BY <2>7, <4>1, <5>1 DEF NoFailureAt, Replied
        <5>3. reply[issued] = "Success"
          BY <1>0, <4>1, <5>2 DEF Replies
        <5> QED BY <4>1, <5>3 DEF Inv, SuccessMeansReplicated
      <4> QED BY <3>2, <4>2, <4>3 DEF Holds
    <3> QED BY <1>0, <3>1, <3>2
  <2>10. FetchBlock(PlaceOf(c, o))' = FetchBlock(PlaceOf(c, o))
    BY <2>1 DEF FetchBlock, GetBinFile, storeVars
  <2> QED BY <2>2, <2>5, <2>6, <2>8, <2>9, <2>10
<1>5. ASSUME NEW r \in Rid, Register(r)
      PROVE  Contents'
  <2>1. /\ pc[r] = "queued"
        /\ uid' = [uid EXCEPT ![r] = [c \in Copies |->
                     IF c = "og" THEN m_static_counter
                     ELSE IF IsWrite(r) THEN m_static_counter + 1 ELSE 0]]
        /\ UNCHANGED <<storeVars, kernelVars, stored>>
    BY <1>5 DEF Register
  <2>2. uid[r] = Both(0)
    BY <2>1 DEF Inv, Progress
  <2>3. \A c \in Copies : uid'[r][c] = 0 \/ (uid'[r][c] \in Nat /\ uid'[r][c] >= m_static_counter)
    BY <1>0, <2>1 DEF Copies
  <2>4. \A w \in stored : w.uid # 0 /\ w.uid \in Nat /\ w.uid < m_static_counter
    BY <1>0 DEF StoredOld, Uid
  <2>5. ASSUME NEW c \in Copies PROVE ~Stored(r, c) /\ ~Stored(r, c)'
    <3>1. ~Stored(r, c)
      BY <2>2, <2>4 DEF Stored, Both
    <3>2. \A w \in stored : w.uid # uid'[r][c]
      BY <1>0, <2>3, <2>4
    <3> QED BY <2>1, <3>1, <3>2 DEF Stored
  <2>6. \A n \in Rid, c \in Copies : n # r => (Stored(n, c)' <=> Stored(n, c))
    BY <1>0, <2>1 DEF Stored, kernelVars
  <2>7. \A q \in Places : FetchBlock(q)' = FetchBlock(q)
    BY <2>1 DEF FetchBlock, GetBinFile, storeVars
  <2> QED BY <1>3, <2>1, <2>5, <2>6, <2>7 DEF kernelVars
<1>6. ASSUME NEW d \in net, MinionWrite(d)
      PROVE  Contents'
  <2>1. /\ d.type = "WriteMsg" /\ StoreBlock(d.place, d.data)
        /\ stored' = stored \cup {[uid |-> d.uid, place |-> d.place, data |-> d.data]}
        /\ UNCHANGED <<kernelVars, reply, uid>>
    BY <1>6 DEF MinionWrite, aiVars
  <2>2. d \in Datagram /\ DatagramOK(d) /\ d.uid \notin confirmed
    BY DEF Inv, TypeOK, Datagrams, OneTrace
  <2>3. d.uid \in Uid /\ d.place \in Places /\ d.uid < m_static_counter
    BY <2>2 DEF Datagram, DatagramOK
  <2>4. PICK r \in Rid, e \in Copies :
          /\ uid[r][e] = d.uid /\ req[r] \in Request
          /\ r = issued \/ (IsWrite(r) /\ reply[r] \in Failures)
    BY <2>2, <2>3, UnderWay
  <2>5. IsWrite(r) /\ d.place = PlaceOf(e, req[r].offset) /\ d.data = req[r].data
    BY <2>1, <2>2, <2>4 DEF DatagramOK, ToMinion
  <2>6. req[r].offset \in Blocks
    BY <2>4 DEF Request
  <2> SUFFICES ASSUME NEW o \in Blocks, NEW c \in Copies, NEW n \in 0 .. MaxRequests,
                      n = issued, NoFailureAt(o)
               PROVE  FetchBlock(PlaceOf(c, o))' = Holds(o, c, n)'
    BY <2>1 DEF Contents, NoFailureAt, IsWrite, kernelVars
  <2>7. PlaceOf(c, o) \in Places
    BY PlaceType
  <2>8. FetchBlock(PlaceOf(c, o))' = IF PlaceOf(c, o) = d.place THEN d.data
                                     ELSE FetchBlock(PlaceOf(c, o))
    BY <1>0, <2>1, <2>3, <2>7, StoreEffect
  <2>9. LastWritten(o, n)' = LastWritten(o, n)
    BY <2>1, LastWrittenStable DEF kernelVars
  <2>10. CASE PlaceOf(c, o) = d.place
    <3>1. o = req[r].offset /\ c = e
      BY <2>5, <2>6, <2>10, OwnPlace
    <3>2. r = issued
      BY <2>4, <2>5, <3>1 DEF NoFailureAt
    <3>3. Stored(n, c)'
      BY <2>1, <2>4, <2>5, <3>1, <3>2 DEF Stored, kernelVars
    <3>4. n > 0 /\ req'[n] = req[n] /\ IsWrite(n)'
      BY <2>1, <2>5, <3>2 DEF Rid, kernelVars, IsWrite
    <3> QED BY <2>5, <2>8, <2>10, <3>1, <3>2, <3>3, <3>4 DEF Holds
  <2>11. CASE PlaceOf(c, o) # d.place
    <3>1. n > 0 /\ req[n].offset = o => (Stored(n, c)' <=> Stored(n, c))
      BY <2>1, <2>11 DEF Stored, kernelVars
    <3>2. Holds(o, c, n)' = Holds(o, c, n)
      BY <2>1, <2>9, <3>1 DEF Holds, IsWrite, kernelVars
    <3> QED BY <2>8, <2>11, <3>2 DEF Contents
  <2> QED BY <2>10, <2>11
<1>7. ASSUME NEW d \in net, MinionRead(d)
      PROVE  Contents'
  <2>1. Touch(d.place.minion) /\ UNCHANGED <<kernelVars, uid, stored>>
    BY <1>7 DEF MinionRead
  <2>2. d.place.minion \in Minions
    BY DEF Inv, TypeOK, Datagram, Places
  <2>3. \A q \in Places : FetchBlock(q)' = FetchBlock(q)
    BY <1>0, <2>1, <2>2, TouchEffect
  <2>4. \A n \in Rid, c \in Copies : n = issued => (Stored(n, c)' <=> Stored(n, c))
    BY <2>1 DEF Stored, kernelVars
  <2> QED BY <1>3, <2>1, <2>3, <2>4 DEF kernelVars
<1>8. CASE UNCHANGED <<issued, req, uid, stored, storeVars>>
  <2>1. \A q \in Places : FetchBlock(q)' = FetchBlock(q)
    BY <1>8 DEF FetchBlock, GetBinFile, storeVars
  <2>2. \A n \in Rid, c \in Copies : n = issued => (Stored(n, c)' <=> Stored(n, c))
    BY <1>8 DEF Stored
  <2> QED BY <1>3, <1>8, <2>1, <2>2
<1>9. ~\E m \in Minions : MinionRestart(m)
  BY <1>0 DEF MinionRestart, Restart
<1>10. \/ \E q \in Requests : Issue(q)
       \/ \E r \in Rid : Register(r)
       \/ \E d \in net : MinionWrite(d) \/ MinionRead(d)
       \/ \E m \in Minions : MinionRestart(m)
       \/ UNCHANGED <<issued, req, uid, stored, storeVars>>
  <2>1. CASE \E r \in Rid : Timer(r)
    BY <2>1, CountStep, GiveUpStep DEF Timer, Count, ReadPoll, WritePollOg, WritePollBackup,
       kernelVars
  <2>2. CASE ~\E r \in Rid : Timer(r)
    BY <2>2 DEF Next, Complete, Reactor, Select, HandleNBD, HandleUDP, Interrupted, Worker,
       SendOg, SendBackup, Minion, Arrive, Lose, MapRace, vars, kernelVars
  <2> QED BY <2>1, <2>2
<1> QED BY <1>4, <1>5, <1>6, <1>7, <1>8, <1>9, <1>10

(* Once handed out, a uid stays with its command.                          *)
LEMMA UidStable ==
  ASSUME Inv, [Next]_vars, NEW r \in Rid, NEW c \in Copies, NEW u \in Uid,
         u < m_static_counter, uid'[r][c] = u
  PROVE  uid[r][c] = u /\ r <= issued
<1>0. uid \in [Rid -> [Copies -> 0 .. MaxUid]] /\ m_static_counter \in Nat /\ u # 0
  BY DEF Inv, TypeOK, RMTypeOK, Uid
<1>1. uid[r][c] = u
  <2>1. CASE UNCHANGED uid
    BY <2>1
  <2>2. CASE \E s \in Rid : Register(s)
    <3>1. PICK s \in Rid :
            uid' = [uid EXCEPT ![s] = [x \in Copies |->
                      IF x = "og" THEN m_static_counter
                      ELSE IF IsWrite(s) THEN m_static_counter + 1 ELSE 0]]
      BY <2>2 DEF Register
    <3>2. CASE r = s
      <4>1. uid'[r][c] = 0 \/ uid'[r][c] >= m_static_counter
        BY <1>0, <3>1, <3>2 DEF Copies
      <4> QED BY <1>0, <4>1 DEF Uid
    <3>3. CASE r # s
      BY <1>0, <3>1, <3>3
    <3> QED BY <3>2, <3>3
  <2>3. (\E s \in Rid : Register(s)) \/ UNCHANGED uid
    BY DEF Next, Issue, Complete, Reactor, Select, HandleNBD, HandleUDP, Interrupted, Worker,
           SendOg, SendBackup, Timer, ReadPoll, WritePollOg, WritePollBackup, LoadCounter, StoreCounter,
           TestCounter, GiveUp, ResetCounter, Minion, MinionWrite, MinionRead, Arrive, Lose,
           MapRace, MinionRestart, vars
  <2> QED BY <2>1, <2>2, <2>3
<1>2. PICK s \in Rid, e \in Copies : uid[s][e] = u /\ s <= issued
  BY OwnerExists
<1>3. s = r
  BY <1>0, <1>1, <1>2 DEF Inv, Uids
<1> QED BY <1>1, <1>2, <1>3

(* Where the response to a read comes from: the minion that holds the      *)
(* original of the block.                                                  *)
LEMMA ReadIsFresh ==
  ASSUME Inv, Known, Confirmed, OneTrace, InStep, Contents, NEW d \in net, d.type = "ReadMsg",
         NEW r \in Rid, NEW c \in Copies, uid[r][c] = d.uid
  PROVE  Fresh(r, FetchBlock(d.place))
<1>1. d \in Datagram /\ DatagramOK(d) /\ d.uid \notin confirmed
  BY DEF Inv, TypeOK, Datagrams, OneTrace
<1>2. d.uid \in Uid /\ d.uid < m_static_counter /\ d.uid # 0
  BY <1>1 DEF Datagram, DatagramOK, Uid
<1>3. PICK s \in Rid, e \in Copies :
        uid[s][e] = d.uid /\ (s = issued \/ (IsWrite(s) /\ reply[s] \in Failures))
  BY <1>1, <1>2, UnderWay
<1>4. s = r
  BY <1>2, <1>3 DEF Inv, Uids
<1>5. ~IsWrite(r) /\ d.place = PlaceOf(c, req[r].offset)
  BY <1>1 DEF DatagramOK, ToMinion
<1>6. r = issued
  BY <1>3, <1>4, <1>5
<1> SUFFICES ASSUME NEW o \in Blocks, req[r].offset = o, AllConfirmed(o, r)
             PROVE  FetchBlock(d.place) = LastWritten(o, r)
  BY DEF Fresh
<1>7. NoFailureAt(o)
  <2> SUFFICES ASSUME NEW w \in Rid, IsWrite(w), req[w].offset = o
               PROVE  reply[w] \notin Failures
    BY DEF NoFailureAt
  <2>1. w <= issued
    BY DEF Known, IsWrite, NoRequest
  <2>2. w \in WritesTo(o, r)
    <3>1. w # r
      BY <1>5
    <3> QED BY <1>6, <2>1, <3>1 DEF WritesTo, Rid
  <2> QED BY <2>2 DEF AllConfirmed, Failures
<1>8. r \in 0 .. MaxRequests
  BY DEF Rid
<1>9. FetchBlock(PlaceOf(c, o)) = Holds(o, c, r)
  BY <1>6, <1>7, <1>8 DEF Contents
<1> QED BY <1>5, <1>9 DEF Holds

(* The data of a read on its way, up to the NBD thread.                    *)
LEMMA ReadDataNext ==
  ASSUME Inv, Known, Confirmed, Answered, OneTrace, InStep, Contents, ReadData, [Next]_vars,
         dups' = 0, short' = 0
  PROVE  ReadData'
<1>0. /\ issued \in Nat /\ issued <= MaxRequests /\ MaxRequests \in Nat /\ dups \in Nat
      /\ uid \in [Rid -> [Copies -> 0 .. MaxUid]] /\ m_static_counter \in Nat
      /\ net \subseteq Datagram /\ inbox \in Seq(Datagram) /\ tcpDown \in Seq(Unit)
      /\ Len(inbox) \in Nat /\ Len(tcpDown) \in Nat /\ BlockLen \in Nat \ {0}
      /\ StatusLen \in Nat /\ outcome \in [Rid -> Seq(Unit)]
  BY DriveAssumption DEF Inv, TypeOK, RMTypeOK
<1>1. ASSUME NEW r \in Rid, r <= issued, NEW val, Fresh(r, val)
      PROVE  Fresh(r, val)'
  BY <1>1, PastStable DEF Fresh
<1>2. /\ \A d \in net : d.uid \in Uid /\ d.uid < m_static_counter
      /\ \A i \in 1 .. Len(inbox) : inbox[i].uid \in Uid /\ inbox[i].uid < m_static_counter
  <2>1. \A d \in Datagram : d.uid \in Uid
    BY DEF Datagram
  <2>2. \A i \in 1 .. Len(inbox) : inbox[i] \in Datagram
    BY <1>0
  <2> QED BY <1>0, <2>1, <2>2 DEF Inv, Datagrams, DatagramOK
<1>3. ASSUME NEW r \in Rid, NEW c \in Copies, NEW d \in net',
             d.type = "MinionReadMsg", d.uid = uid'[r][c]
      PROVE  Fresh(r, d.data)'
  <2>1. CASE d \in net
    <3>1. uid[r][c] = d.uid /\ r <= issued
      BY <1>2, <1>3, <2>1, UidStable
    <3>2. Fresh(r, d.data)
      BY <1>3, <2>1, <3>1 DEF ReadData
    <3> QED BY <1>1, <3>1, <3>2
  <2>2. ASSUME NEW e \in net, MinionRead(e), d \notin net
        PROVE  Fresh(r, d.data)'
    <3> DEFINE x == Message("MinionReadMsg", e.uid, e.place, FetchBlock(e.place))
    <3>1. e.type = "ReadMsg" /\ Deliver(e, {x})
      BY <2>2 DEF MinionRead
    <3>2. x.uid = e.uid /\ x.data = FetchBlock(e.place)
      BY DEF Message
    <3> HIDE DEF x
    <3>3. d = x
      BY <2>2, <3>1 DEF Deliver
    <3>4. uid[r][c] = e.uid /\ r <= issued
      BY <1>2, <1>3, <3>2, <3>3, UidStable
    <3>5. Fresh(r, d.data)
      BY <3>1, <3>2, <3>3, <3>4, ReadIsFresh
    <3> QED BY <1>1, <3>4, <3>5
  <2>3. ASSUME NEW e \in net, MinionWrite(e), d \notin net
        PROVE  FALSE
    <3> DEFINE x == Message("MinionWriteMsg", e.uid, e.place, Zero)
    <3>1. Deliver(e, {x})
      BY <2>3 DEF MinionWrite
    <3>2. x.type = "MinionWriteMsg"
      BY DEF Message
    <3> HIDE DEF x
    <3> QED BY <1>3, <2>3, <3>1, <3>2 DEF Deliver
  <2>4. ASSUME NEW s \in Rid, SendOg(s) \/ SendBackup(s), d \notin net
        PROVE  FALSE
    <3>1. PICK e \in Copies : d = Request2Minion(s, e)
      BY <2>4 DEF SendOg, SendBackup, Send, Copies
    <3>2. d.type \in {"WriteMsg", "ReadMsg"}
      BY <3>1 DEF Request2Minion, Message
    <3> QED BY <1>3, <3>2
  <2>5. \/ net' \subseteq net
        \/ \E e \in net : MinionRead(e) \/ MinionWrite(e)
        \/ \E s \in Rid : SendOg(s) \/ SendBackup(s)
    BY DEF Next, Issue, Complete, Reactor, Select, HandleNBD, HandleUDP, Interrupted, Worker,
           Register, Timer, ReadPoll, WritePollOg, WritePollBackup, LoadCounter, StoreCounter,
           TestCounter, GiveUp, ResetCounter, Minion, Arrive, Lose, Deliver, Drop, Vanish, MapRace, MinionRestart, vars,
           netVars
  <2> QED BY <2>1, <2>2, <2>3, <2>4, <2>5
<1>4. ASSUME NEW r \in Rid, NEW c \in Copies, NEW i \in 1 .. Len(inbox'),
             inbox'[i].type = "MinionReadMsg", inbox'[i].uid = uid'[r][c]
      PROVE  \A o \in Blocks : req'[r].offset = o /\ AllConfirmed(o, r)'
               => inbox'[i].data = LastWritten(o, r)'
  <2>1. inbox'[i] \in net \/ \E j \in 1 .. Len(inbox) : inbox'[i] = inbox[j]
    <3>1. CASE HandleUDP
      <4>1. inbox # <<>> /\ inbox' = Tail(inbox)
        BY <3>1 DEF HandleUDP
      <4>2. i + 1 \in 1 .. Len(inbox) /\ inbox'[i] = inbox[i + 1]
        BY <1>0, <4>1, HeadTailProperties
      <4> QED BY <4>2
    <3>2. CASE \E d \in net : Arrive(d)
      <4>1. PICK d \in net : inbox' = Append(inbox, d)
        BY <3>2 DEF Arrive
      <4>2. Len(inbox') = Len(inbox) + 1
        BY <1>0, <4>1
      <4>3. CASE i = Len(inbox) + 1
        BY <1>0, <4>1, <4>3
      <4>4. CASE i \in 1 .. Len(inbox)
        BY <1>0, <4>1, <4>4
      <4> QED BY <1>0, <4>2, <4>3, <4>4
    <3>3. CASE UNCHANGED inbox
      BY <3>3
    <3>4. HandleUDP \/ (\E d \in net : Arrive(d)) \/ UNCHANGED inbox
      BY DEF Next, Issue, Complete, Reactor, Select, HandleNBD, Interrupted, Worker, SendOg,
             SendBackup, Register, Timer, ReadPoll, WritePollOg, WritePollBackup, LoadCounter, StoreCounter,
           TestCounter, GiveUp, ResetCounter, Minion, MinionWrite, MinionRead, Lose, MapRace,
             MinionRestart, vars, reactVars
    <3> QED BY <3>1, <3>2, <3>3, <3>4
  <2>2. uid[r][c] = inbox'[i].uid /\ r <= issued
    BY <1>2, <1>4, <2>1, UidStable
  <2>3. Fresh(r, inbox'[i].data)
    BY <1>4, <2>1, <2>2 DEF ReadData
  <2> QED BY <2>2, <2>3, PastStable DEF Fresh
<1>5. ASSUME NEW r \in Rid, NEW i \in 1 .. Len(tcpDown'), r = issued', ~IsWrite(r)'
      PROVE  \A o \in Blocks : req'[r].offset = o /\ AllConfirmed(o, r)'
               => tcpDown'[i].val = LastWritten(o, r)'
  <2>1. r = issued /\ Fresh(r, tcpDown'[i].val)
    <3>1. CASE \E q \in Requests : Issue(q)
      <4>1. tcpDown' = <<>>
        BY <3>1 DEF Issue, InStep
      <4> QED BY <1>5, <4>1
    <3>2. CASE Complete
      <4>1. InStep'
        BY InStepNext
      <4>2. tcpDown' = <<>>
        BY <3>2, <4>1 DEF Complete, InStep
      <4> QED BY <1>5, <4>2
    <3>3. CASE UNCHANGED <<kernelVars, tcpDown>>
      BY <1>5, <3>3 DEF ReadData, kernelVars, IsWrite
    <3>4. ASSUME NEW s, NEW val, NEW n \in Nat, UNCHANGED kernelVars, NotifySucces(s, val, n),
                 ~IsWrite(issued) => Fresh(issued, val)
          PROVE  r = issued /\ Fresh(r, tcpDown'[i].val)
      <4>1. r = issued /\ ~IsWrite(r)
        BY <1>5, <3>4 DEF kernelVars, IsWrite
      <4> DEFINE u == [j \in 1 .. n |-> [of |-> s, val |-> val]]
      <4>2. u \in Seq({[of |-> s, val |-> val]}) /\ Len(u) = n
            /\ \A j \in 1 .. n : u[j].val = val
        BY <3>4
      <4>3. tcpDown' = tcpDown \o u
        BY <3>4 DEF NotifySucces
      <4> HIDE DEF u
      <4>4. Len(tcpDown') = Len(tcpDown) + n
        <5>1. \E S : tcpDown \in Seq(S) /\ u \in Seq(S)
          <6> DEFINE S == Unit \cup {[of |-> s, val |-> val]}
          <6>1. tcpDown \in Seq(S) /\ u \in Seq(S)
            BY <1>0, <4>2
          <6> QED BY <6>1
        <5> QED BY <4>2, <4>3, <5>1, ConcatProperties
      <4>5. CASE i \in 1 .. Len(tcpDown)
        <5>1. tcpDown'[i] = tcpDown[i]
          BY <1>0, <4>2, <4>3, <4>5
        <5> QED BY <4>1, <4>5, <5>1 DEF ReadData
      <4>6. CASE i \notin 1 .. Len(tcpDown)
        <5>1. i - Len(tcpDown) \in 1 .. n /\ tcpDown'[i] = u[i - Len(tcpDown)]
          BY <1>0, <4>2, <4>3, <4>4, <4>6
        <5>2. tcpDown'[i].val = val
          BY <4>2, <5>1
        <5> QED BY <3>4, <4>1, <5>2
      <4> QED BY <4>5, <4>6
    <3>5. ASSUME HandleUDP, Head(inbox).type = "MinionReadMsg"
          PROVE  r = issued /\ Fresh(r, tcpDown'[i].val)
      <4> DEFINE d == Head(inbox)
      <4>1. /\ inbox # <<>> /\ UNCHANGED kernelVars
            /\ NotifySucces(Owner(d.uid), d.data, BlockLen)
        BY <3>5 DEF HandleUDP
      <4>2. d = inbox[1] /\ 1 \in 1 .. Len(inbox)
        BY <1>0, <4>1
      <4>3. d.uid \in Uid /\ d.uid < m_static_counter /\ d.uid \notin confirmed /\ DatagramOK(d)
        BY <1>2, <4>2 DEF OneTrace, Inv, Datagrams
      <4>4. PICK s \in Rid, c \in Copies :
              uid[s][c] = d.uid /\ (s = issued \/ (IsWrite(s) /\ reply[s] \in Failures))
        BY <4>3, UnderWay
      <4>5. s = issued
        BY <3>5, <4>3, <4>4 DEF DatagramOK
      <4>6. Fresh(issued, d.data)
        BY <3>5, <4>2, <4>4, <4>5 DEF ReadData
      <4> HIDE DEF d
      <4> QED BY <1>0, <3>4, <4>1, <4>6
    <3>6. ASSUME NEW s \in Rid, NEW text, pc[s] \in {"pollBackup", "notify"},
                 UNCHANGED kernelVars, NotifySucces(s, text, StatusLen)
          PROVE  r = issued /\ Fresh(r, tcpDown'[i].val)
      <4>1. IsWrite(s) /\ ~(s > issued)
        BY <3>6 DEF Inv, Progress, WriteOnly
      <4>2. reply[s] = "none"
        BY <3>6 DEF Answered, Ending
      <4>3. ~(s < issued)
        BY <4>1, <4>2 DEF InStep, Replied
      <4>4. s = issued
        BY <1>0, <4>1, <4>3 DEF Rid
      <4> QED BY <1>0, <3>4, <3>6, <4>1, <4>4
    <3>7. \/ \E q \in Requests : Issue(q)
          \/ Complete
          \/ UNCHANGED <<kernelVars, tcpDown>>
          \/ HandleUDP /\ Head(inbox).type = "MinionReadMsg"
          \/ \E s \in Rid, text \in Replies :
               pc[s] \in {"pollBackup", "notify"} /\ UNCHANGED kernelVars
               /\ NotifySucces(s, text, StatusLen)
      <4>1. ASSUME NEW s \in Rid, WritePollBackup(s)
            PROVE  \/ UNCHANGED <<kernelVars, tcpDown>>
                   \/ /\ pc[s] \in {"pollBackup", "notify"} /\ UNCHANGED kernelVars
                      /\ NotifySucces(s, "Success", StatusLen)
        BY <4>1 DEF WritePollBackup
      <4>2. ASSUME NEW s \in Rid, GiveUp(s)
            PROVE  \E text \in Failures :
                         pc[s] \in {"pollBackup", "notify"} /\ UNCHANGED kernelVars
                         /\ NotifySucces(s, text, StatusLen)
        BY <4>2, GiveUpStep
      <4>3. "Success" \in Replies /\ Failures \subseteq Replies
        BY DEF Replies
      <4>4. \/ \E q \in Requests : Issue(q)
            \/ Complete
            \/ UNCHANGED <<kernelVars, tcpDown>>
            \/ HandleUDP /\ Head(inbox).type = "MinionReadMsg"
            \/ \E s \in Rid : WritePollBackup(s) \/ GiveUp(s)
        BY CountStep
           DEF Next, Reactor, Select, HandleNBD, HandleUDP, Interrupted, Worker, SendOg,
               SendBackup, Register, Timer, Count, ReadPoll, WritePollOg, Minion, MinionWrite,
               MinionRead, Arrive, Lose, MapRace, MinionRestart, vars, tcpVars
      <4> QED BY <4>1, <4>2, <4>3, <4>4
    <3> QED BY <3>1, <3>2, <3>3, <3>5, <3>6, <3>7
  <2> QED BY <1>0, <2>1, PastStable DEF Fresh
<1>6. ASSUME NEW r \in Rid, NEW i \in 1 .. Len(outcome'[r]), ~IsWrite(r)'
      PROVE  \A o \in Blocks : req'[r].offset = o /\ AllConfirmed(o, r)'
               => outcome'[r][i].val = LastWritten(o, r)'
  <2>1. ASSUME NEW j \in 1 .. Len(outcome[r]), outcome'[r][i] = outcome[r][j]
        PROVE  r <= issued /\ Fresh(r, outcome'[r][i].val)
    <3>1. outcome[r] # <<>>
      BY <1>0, <2>1
    <3>2. r <= issued
      BY <3>1 DEF Known
    <3>3. ~IsWrite(r)
      BY <1>6, <3>2, PastStable DEF IsWrite
    <3> QED BY <2>1, <3>2, <3>3 DEF ReadData
  <2>2. CASE outcome'[r] = outcome[r]
    BY <1>6, <2>1, <2>2, PastStable DEF Fresh
  <2>3. CASE outcome'[r] # outcome[r]
    <3>1. PICK n \in 1 .. Available :
            outcome' = [outcome EXCEPT ![issued] = SubSeq(tcpDown, 1, n)] /\ req' = req
      BY <2>3, KernelSteps DEF Issue, Complete, kernelVars
    <3>2. r = issued /\ outcome'[r] = SubSeq(tcpDown, 1, n)
      BY <1>0, <2>3, <3>1
    <3>3. n \in 0 .. Len(tcpDown)
      BY <1>0, <3>1 DEF Available
    <3>4. Len(SubSeq(tcpDown, 1, n)) = n /\ \A j \in 1 .. n : SubSeq(tcpDown, 1, n)[j] = tcpDown[j]
      BY <1>0, <3>3
    <3>5. i \in 1 .. Len(tcpDown) /\ outcome'[r][i] = tcpDown[i]
      BY <1>0, <1>6, <3>2, <3>3, <3>4
    <3>6. Fresh(r, outcome'[r][i].val)
      BY <1>6, <3>1, <3>2, <3>5 DEF ReadData, IsWrite
    <3>7. r <= issued
      BY <1>0, <3>2
    <3> QED BY <3>6, <3>7, PastStable DEF Fresh
  <2> QED BY <2>2, <2>3
<1>7. /\ \A r \in Rid, c \in Copies, i \in 1 .. Len(inbox') :
           inbox'[i].type = "MinionReadMsg" /\ inbox'[i].uid = uid'[r][c]
             => Fresh(r, inbox[i].data)'
      /\ \A r \in Rid, i \in 1 .. Len(tcpDown') :
           r = issued' /\ ~IsWrite(r)' => Fresh(r, tcpDown[i].val)'
      /\ \A r \in Rid : \A i \in 1 .. Len(outcome'[r]) :
           ~IsWrite(r)' => Fresh(r, outcome[r][i].val)'
  BY <1>4, <1>5, <1>6 DEF Fresh
<1> QED BY <1>3, <1>7 DEF ReadData

-----------------------------------------------------------------------------
(* Every read that was answered returns what ReadsSeeLastWrite says.       *)
LEMMA ReadsFollow ==
  ASSUME Order, dups = 0, short = 0 => ReadData
  PROVE  ReadsSeeLastWrite
<1> SUFFICES ASSUME NEW r \in CompletedReads, short = 0,
                    \A w \in WritesTo(req[r].offset, r) : reply[w] = "Success"
             PROVE  outcome[r] = [i \in 1 .. BlockLen |->
                                    [of |-> r, val |-> LastWritten(req[r].offset, r)]]
  BY DEF ReadsSeeLastWrite, ReadReturns
<1> DEFINE o == req[r].offset
           v == LastWritten(o, r)
<1>1. r \in Rid /\ ~IsWrite(r) /\ outcome[r] # <<>> /\ outcome[r] \in Seq(Unit)
  BY DEF CompletedReads, IsWrite, Order, Inv, TypeOK
<1>2. /\ \A i \in DOMAIN outcome[r] : outcome[r][i].of = r
      /\ Len(outcome[r]) = BlockLen
  BY <1>1 DEF Order, RepliesInStep
<1>3. o \in Blocks
  <2>1. req[r] \in Request
    BY <1>1 DEF CompletedReads, Order, Known, NoRequest
  <2> QED BY <2>1 DEF Request
<1>4. \A i \in 1 .. Len(outcome[r]) : outcome[r][i].val = v
  BY <1>1, <1>3 DEF ReadData, Fresh, AllConfirmed
<1> HIDE DEF v, o
<1>5. BlockLen \in Nat /\ DOMAIN outcome[r] = 1 .. BlockLen
  BY <1>1, <1>2, DriveAssumption
<1>6. ASSUME NEW i \in 1 .. BlockLen
      PROVE  outcome[r][i] = [of |-> r, val |-> v]
  <2>1. outcome[r][i] \in Unit
    BY <1>1, <1>2
  <2>2. outcome[r][i].of = r /\ outcome[r][i].val = v
    BY <1>2, <1>4, <1>5
  <2> QED BY <2>1, <2>2 DEF Unit
<1>7. outcome[r] = [i \in 1 .. BlockLen |-> [of |-> r, val |-> v]]
  BY <1>1, <1>5, <1>6
<1> QED BY <1>7 DEF o, v

(* When all is quiet the copies are what was written last.                 *)
LEMMA MirrorsFollow ==
  ASSUME Order, dups = 0, short = 0 => Contents
  PROVE  MirrorsAgree
<1> SUFFICES ASSUME nbd = "idle", short = 0,
                    \A r \in 1 .. issued : IsWrite(r) => reply[r] = "Success",
                    NEW o \in Blocks, NEW c \in Copies
             PROVE  FetchBlock(PlaceOf(c, o)) = LastWritten(o, issued + 1)
  BY DEF MirrorsAgree
<1>0. issued \in Nat /\ issued \in 0 .. MaxRequests /\ MaxRequests \in Nat
  BY DriveAssumption DEF Order, Inv, TypeOK
<1>1. NoFailureAt(o)
  <2> SUFFICES ASSUME NEW w \in Rid, IsWrite(w) PROVE reply[w] \notin Failures
    BY DEF NoFailureAt
  <2>1. w <= issued
    BY DEF Order, Known, IsWrite, NoRequest
  <2>2. w \in 1 .. issued
    BY <1>0, <2>1 DEF Rid
  <2> QED BY <2>2 DEF Failures
<1>2. FetchBlock(PlaceOf(c, o)) = Holds(o, c, issued)
  BY <1>0, <1>1 DEF Contents
<1>3. CASE issued = 0
  <2>1. WritesTo(o, issued) = {} /\ WritesTo(o, issued + 1) = {}
    BY <1>3 DEF WritesTo
  <2> QED BY <1>2, <1>3, <2>1 DEF Holds, LastWritten
<1>4. CASE issued > 0
  <2>1. issued \in Nat \ {0} /\ issued \in 1 .. issued /\ issued \in Rid
    BY <1>0, <1>4 DEF Rid
  <2>2. LastWritten(o, issued + 1) = IF IsWrite(issued) /\ req[issued].offset = o
                                     THEN req[issued].data ELSE LastWritten(o, issued)
    BY <2>1, LastWrittenStep
  <2>3. IsWrite(issued) => Stored(issued, c)
    BY <2>1 DEF Order, Inv, SuccessMeansReplicated
  <2> QED BY <1>2, <1>4, <2>2, <2>3 DEF Holds
<1> QED BY <1>0, <1>3, <1>4

(* The invariant of the stored data.                                       *)
Storage == Order /\ StoredOld /\ Durable

(* Storage is inductive.                                                   *)
LEMMA StorageInit == Init => Storage
<1> SUFFICES ASSUME Init PROVE Storage
  OBVIOUS
<1>1. Order
  BY OrderInit
<1>2. StoredOld
  BY DEF Init, StoredOld
<1>3. Contents
  <2> SUFFICES ASSUME NEW o \in Blocks, NEW c \in Copies
               PROVE  FetchBlock(PlaceOf(c, o)) = Holds(o, c, 0)
    BY DEF Contents, Init
  <2>1. PlaceOf(c, o).minion \in Minions /\ PlaceOf(c, o).offset \in Offsets
    BY PlaceType DEF Places
  <2>2. FetchBlock(PlaceOf(c, o)) = Zero
    BY <2>1 DEF Init, StoreInit, FetchBlock, GetBinFile
  <2>3. WritesTo(o, 0) = {}
    BY DEF WritesTo
  <2> QED BY <2>2, <2>3 DEF Holds, LastWritten
<1>4. ReadData
  BY DEF Init, NetInit, ReadData
<1> QED BY <1>1, <1>2, <1>3, <1>4 DEF Storage, Durable

LEMMA StorageNext == Storage /\ [Next]_vars => Storage'
<1> SUFFICES ASSUME Storage, [Next]_vars PROVE Storage'
  OBVIOUS
<1>1. Order' /\ StoredOld'
  BY OrderNext, StoredOldNext DEF Storage, Order
<1>2. Durable'
  <2> SUFFICES ASSUME dups' = 0, short' = 0, restarts' = 0 PROVE Contents' /\ ReadData'
    BY DEF Durable
  <2>1. dups = 0 /\ short = 0 /\ restarts = 0
    BY CountsGrow DEF Storage, Order
  <2>2. OneTrace /\ InStep /\ Contents /\ ReadData
    BY <2>1 DEF Storage, Order, Sequential, Durable
  <2> QED BY <2>2, ContentsNext, ReadDataNext DEF Storage, Order
<1> QED BY <1>1, <1>2 DEF Storage

(* The drive is a block device: as long as no datagram is repeated and no  *)
(* minion restarted, a read whose block was written with success only      *)
(* returns the data of the last write (MinionReadCmd, WriteCommand), for   *)
(* any number of requests, blocks and values, whatever is lost, reordered  *)
(* or given up.                                                            *)
THEOREM ReadsTheorem == Spec => [](dups = 0 /\ restarts = 0 => ReadsSeeLastWrite)
<1>1. Storage => (dups = 0 /\ restarts = 0 => ReadsSeeLastWrite)
  BY ReadsFollow DEF Storage, Durable
<1> QED BY <1>1, StorageInit, StorageNext, PTL DEF Spec

(* Under the same conditions the two copies of every block agree whenever  *)
(* the NBD thread is idle and every write was confirmed (RAID 10).         *)
THEOREM MirrorsTheorem == Spec => [](dups = 0 /\ restarts = 0 => MirrorsAgree)
<1>1. Storage => (dups = 0 /\ restarts = 0 => MirrorsAgree)
  BY MirrorsFollow DEF Storage, Durable
<1> QED BY <1>1, StorageInit, StorageNext, PTL DEF Spec

-----------------------------------------------------------------------------
(* The static counters of WriteAIFunc when one AI at a time is in it: each *)
(* is below the limit except between its increment and its reset, and      *)
(* between the load and the store of ++ nobody changes it.                 *)
Below(k) == k["og"] < POLL_LIMIT /\ k["backup"] < POLL_LIMIT

CountersAt(p, n, k) ==
  /\ k["og"] <= POLL_LIMIT /\ k["backup"] <= POLL_LIMIT
  /\ p \in {"pollBackup", "loadOg", "storeOg", "testBackup", "resetBackup"}
       => k["og"] < POLL_LIMIT
  /\ p \in {"pollBackup", "loadOg", "storeOg", "loadBackup", "storeBackup"}
       => k["backup"] < POLL_LIMIT
  /\ p = "storeOg" => n = k["og"]
  /\ p = "storeBackup" => n = k["backup"]

CountersOK ==
  /\ \A r, s \in Rid : Firing(r) /\ Firing(s) => r = s
  /\ (\A r \in Rid : ~Firing(r)) => Below(counter)
  /\ \A r \in Rid : Firing(r) => CountersAt(pc[r], reg[r], counter)

Fires(p) == p \in {"pollBackup", "notify"} \cup Counting \cup Ending

(* CountersOK is inductive.                                                *)
LEMMA CountersOKNext ==
  ASSUME PromptTimers, Inv, CountersOK, [Next]_vars
  PROVE  CountersOK'
<1>0. /\ pc \in [Rid -> PCs] /\ counter \in [Copies -> 0 .. (POLL_LIMIT + 1)]
      /\ reg \in [Rid -> 0 .. (POLL_LIMIT + 1)] /\ POLL_LIMIT \in Nat \ {0}
      /\ "og" \in Copies /\ "backup" \in Copies
  BY DriveAssumption DEF Inv, TypeOK, Copies
<1>1. ASSUME UNCHANGED <<counter, reg>>,
             \A s \in Rid : pc'[s] = pc[s] \/ (~Firing(s) /\ ~Firing(s)')
      PROVE  CountersOK'
  <2>1. \A s \in Rid : /\ Firing(s)' <=> Firing(s)
                       /\ Firing(s) => pc'[s] = pc[s]
    BY <1>1 DEF Firing
  <2> QED BY <1>1, <2>1 DEF CountersOK
<1>2. CASE HandleNBD
  <2>1. pc' = [pc EXCEPT ![Head(tcpUp)] = "queued"] /\ tcpUp # <<>> /\ UNCHANGED <<counter, reg>>
    BY <1>2 DEF HandleNBD, aiVars
  <2>2. Head(tcpUp) \in Rid /\ pc[Head(tcpUp)] = "none"
    BY <2>1 DEF Inv, TypeOK, Stream
  <2> QED BY <1>0, <1>1, <2>1, <2>2 DEF Firing, Counting, Ending
<1>3. ASSUME NEW r \in Rid, Worker(r) \/ ReadPoll(r)
      PROVE  CountersOK'
  <2>1. PICK p \in {"sendOg", "sendBackup", "sched", "done"} :
          /\ pc' = [pc EXCEPT ![r] = p] /\ UNCHANGED <<counter, reg>>
          /\ pc[r] \in {"queued", "sendOg", "sendBackup", "sched"}
    BY <1>3 DEF Worker, Register, SendOg, SendBackup, ReadPoll, aiVars
  <2> QED BY <1>0, <1>1, <2>1 DEF Firing, Counting, Ending
<1>4. ASSUME NEW r \in Rid, NEW p \in PCs, pc' = [pc EXCEPT ![r] = p],
             \A s \in Rid \ {r} : ~Firing(s),
             IF Fires(p) THEN CountersAt(p, reg'[r], counter') ELSE Below(counter')
      PROVE  CountersOK'
  <2>1. pc'[r] = p /\ \A s \in Rid \ {r} : pc'[s] = pc[s]
    BY <1>0, <1>4
  <2>2. (Firing(r)' <=> Fires(p)) /\ \A s \in Rid \ {r} : ~Firing(s)'
    BY <1>4, <2>1 DEF Firing, Fires
  <2> QED BY <1>4, <2>1, <2>2 DEF CountersOK
<1>5. ASSUME NEW r \in Rid, Firing(r)
      PROVE  (\A s \in Rid \ {r} : ~Firing(s)) /\ CountersAt(pc[r], reg[r], counter)
  BY <1>5 DEF CountersOK
<1>6. \A p \in {"pollBackup", "notify"} \cup Counting \cup Ending : p \in PCs /\ Fires(p)
  BY DEF PCs, Fires
<1>7. /\ ~Fires("sched") /\ ~Fires("done")
      /\ "sched" \in PCs /\ "done" \in PCs
  BY DEF Fires, Counting, Ending, PCs
<1>8. ASSUME NEW r \in Rid, WritePollOg(r)
      PROVE  CountersOK'
  <2>1. /\ pc' = [pc EXCEPT ![r] = "pollBackup"] /\ pc[r] = "sched"
        /\ UNCHANGED <<counter, reg>> /\ \A s \in Rid \ {r} : ~Firing(s)
    BY <1>8 DEF WritePollOg, MayFire
  <2>2. ~Firing(r)
    BY <2>1 DEF Firing, Counting, Ending
  <2>3. Below(counter)
    BY <2>1, <2>2 DEF CountersOK
  <2>4. CountersAt("pollBackup", reg'[r], counter')
    BY <1>0, <2>1, <2>3 DEF Below, CountersAt
  <2> QED BY <1>4, <1>6, <2>1, <2>4
<1>9. ASSUME NEW r \in Rid, WritePollBackup(r)
      PROVE  CountersOK'
  <2>1. PICK p \in {"done", "loadOg", "loadBackup"} :
          pc' = [pc EXCEPT ![r] = p] /\ pc[r] = "pollBackup" /\ UNCHANGED <<counter, reg>>
    BY <1>9 DEF WritePollBackup
  <2>2. (\A s \in Rid \ {r} : ~Firing(s)) /\ CountersAt("pollBackup", reg[r], counter)
    BY <1>5, <2>1 DEF Firing
  <2>3. CASE p = "done"
    <3>1. Below(counter')
      BY <2>1, <2>2 DEF Below, CountersAt
    <3> QED BY <1>4, <1>7, <2>1, <2>2, <2>3, <3>1
  <2>4. CASE p \in {"loadOg", "loadBackup"}
    <3>1. CountersAt(p, reg'[r], counter')
      BY <2>1, <2>2, <2>4 DEF CountersAt
    <3>2. p \in PCs /\ Fires(p)
      BY <1>6, <2>4 DEF Counting
    <3> QED BY <1>4, <2>1, <2>2, <3>1, <3>2
  <2> QED BY <2>3, <2>4
<1>11. ASSUME NEW r \in Rid, NEW c \in Copies, LoadCounter(r, c)
       PROVE  CountersOK'
  <2>1. /\ pc[r] = LoadAt[c] /\ pc' = [pc EXCEPT ![r] = StoreAt[c]]
        /\ reg' = [reg EXCEPT ![r] = counter[c]] /\ UNCHANGED counter
    BY <1>11 DEF LoadCounter
  <2>2. /\ \/ c = "og" /\ LoadAt[c] = "loadOg" /\ StoreAt[c] = "storeOg"
           \/ c = "backup" /\ LoadAt[c] = "loadBackup" /\ StoreAt[c] = "storeBackup"
    BY DEF Copies, LoadAt, StoreAt
  <2>3. Firing(r) /\ StoreAt[c] \in PCs /\ Fires(StoreAt[c])
    BY <1>6, <2>1, <2>2 DEF Firing, Counting
  <2>4. (\A s \in Rid \ {r} : ~Firing(s)) /\ CountersAt(LoadAt[c], reg[r], counter)
    BY <1>5, <2>1, <2>3
  <2>5. reg'[r] = counter[c]
    BY <1>0, <2>1
  <2>6. CountersAt(StoreAt[c], reg'[r], counter')
    BY <2>1, <2>2, <2>4, <2>5 DEF CountersAt
  <2> QED BY <1>4, <2>1, <2>3, <2>4, <2>6
<1>12. ASSUME NEW r \in Rid, NEW c \in Copies, StoreCounter(r, c)
       PROVE  CountersOK'
  <2>1. PICK p \in {"loadBackup", "testOg"} :
          /\ pc[r] = StoreAt[c] /\ pc' = [pc EXCEPT ![r] = p]
          /\ p = "loadBackup" => c = "og"
          /\ counter' = [counter EXCEPT ![c] = Increment(reg[r])]
    BY <1>12 DEF StoreCounter
  <2>2. \/ c = "og" /\ StoreAt[c] = "storeOg"
        \/ c = "backup" /\ StoreAt[c] = "storeBackup"
    BY DEF Copies, StoreAt
  <2>3. Firing(r) /\ p \in PCs /\ Fires(p)
    BY <1>6, <2>1, <2>2 DEF Firing, Counting
  <2>4. (\A s \in Rid \ {r} : ~Firing(s)) /\ CountersAt(StoreAt[c], reg[r], counter)
    BY <1>5, <2>1, <2>3
  <2>5. reg[r] = counter[c] /\ counter[c] < POLL_LIMIT
    BY <2>2, <2>4 DEF CountersAt
  <2>6. Increment(reg[r]) <= POLL_LIMIT
    BY <1>0, <2>5 DEF Increment
  <2>7. counter'[c] <= POLL_LIMIT /\ \A e \in Copies \ {c} : counter'[e] = counter[e]
    BY <1>0, <2>1, <2>6
  <2>8. CountersAt(p, reg'[r], counter')
    <3>1. CASE c = "og"
      <4>1. /\ counter'["og"] <= POLL_LIMIT
            /\ counter'["backup"] < POLL_LIMIT /\ counter'["backup"] <= POLL_LIMIT
        BY <1>0, <2>2, <2>4, <2>7, <3>1 DEF CountersAt
      <4> QED BY <4>1 DEF CountersAt
    <3>2. CASE c = "backup"
      <4>1. counter'["og"] <= POLL_LIMIT /\ counter'["backup"] <= POLL_LIMIT /\ p = "testOg"
        BY <1>0, <2>1, <2>2, <2>4, <2>7, <3>2 DEF CountersAt
      <4> QED BY <4>1 DEF CountersAt
    <3> QED BY <2>2, <3>1, <3>2
  <2> QED BY <1>4, <2>1, <2>3, <2>4, <2>8
<1>13. ASSUME NEW r \in Rid, NEW c \in Copies, TestCounter(r, c)
       PROVE  CountersOK'
  <2>1. PICK p \in {"notify", "testBackup", "sched"} :
          /\ pc[r] = TestAt[c] /\ pc' = [pc EXCEPT ![r] = p] /\ UNCHANGED <<counter, reg>>
          /\ p = IF counter[c] = POLL_LIMIT THEN "notify"
                                           ELSE IF c = "og" THEN "testBackup" ELSE "sched"
    BY <1>13 DEF TestCounter, aiVars
  <2>2. \/ c = "og" /\ TestAt[c] = "testOg"
        \/ c = "backup" /\ TestAt[c] = "testBackup"
    BY DEF Copies, TestAt
  <2>3. Firing(r)
    BY <2>1, <2>2 DEF Firing, Counting
  <2>4. (\A s \in Rid \ {r} : ~Firing(s)) /\ CountersAt(TestAt[c], reg[r], counter)
    BY <1>5, <2>1, <2>3
  <2>5. counter["og"] \in Int /\ counter["backup"] \in Int
    BY <1>0
  <2>6. CASE p = "sched"
    <3>1. Below(counter')
      BY <1>0, <2>1, <2>2, <2>4, <2>5, <2>6 DEF CountersAt, Below
    <3> QED BY <1>4, <1>7, <2>1, <2>4, <2>6, <3>1
  <2>7. CASE p \in {"notify", "testBackup"}
    <3>1. CountersAt(p, reg'[r], counter')
      BY <1>0, <2>1, <2>2, <2>4, <2>5, <2>7 DEF CountersAt
    <3>2. p \in PCs /\ Fires(p)
      BY <1>6, <2>7 DEF Counting
    <3> QED BY <1>4, <2>1, <2>4, <3>1, <3>2
  <2> QED BY <2>6, <2>7
<1>14. ASSUME NEW r \in Rid, GiveUp(r)
       PROVE  CountersOK'
  <2>1. /\ pc[r] = "notify" /\ pc' = [pc EXCEPT ![r] = "resetOg"]
        /\ UNCHANGED <<counter, reg>>
    BY <1>14, GiveUpStep
  <2>2. (\A s \in Rid \ {r} : ~Firing(s)) /\ CountersAt("notify", reg[r], counter)
    BY <1>5, <2>1 DEF Firing
  <2>3. CountersAt("resetOg", reg'[r], counter')
    BY <2>1, <2>2 DEF CountersAt
  <2>4. "resetOg" \in PCs /\ Fires("resetOg")
    BY <1>6 DEF Ending
  <2> QED BY <1>4, <2>1, <2>2, <2>3, <2>4
<1>15. ASSUME NEW r \in Rid, NEW c \in Copies, ResetCounter(r, c)
       PROVE  CountersOK'
  <2>1. /\ pc[r] = ResetAt[c] /\ counter' = [counter EXCEPT ![c] = 0]
        /\ pc' = [pc EXCEPT ![r] = IF c = "og" THEN "resetBackup" ELSE "done"]
    BY <1>15 DEF ResetCounter
  <2>2. \/ c = "og" /\ ResetAt[c] = "resetOg"
        \/ c = "backup" /\ ResetAt[c] = "resetBackup"
    BY DEF Copies, ResetAt
  <2>3. Firing(r)
    BY <2>1, <2>2 DEF Firing, Ending
  <2>4. (\A s \in Rid \ {r} : ~Firing(s)) /\ CountersAt(ResetAt[c], reg[r], counter)
    BY <1>5, <2>1, <2>3
  <2>5. counter'[c] = 0 /\ \A e \in Copies \ {c} : counter'[e] = counter[e]
    BY <1>0, <2>1
  <2>6. CASE c = "og"
    <3>1. counter'["og"] = 0 /\ counter'["backup"] <= POLL_LIMIT
      BY <1>0, <2>4, <2>5, <2>6 DEF CountersAt
    <3>2. CountersAt("resetBackup", reg'[r], counter')
      BY <1>0, <3>1 DEF CountersAt
    <3>3. "resetBackup" \in PCs /\ Fires("resetBackup")
      BY <1>6 DEF Ending
    <3>4. pc' = [pc EXCEPT ![r] = "resetBackup"]
      BY <2>1, <2>6
    <3> QED BY <1>4, <2>4, <3>2, <3>3, <3>4
  <2>7. CASE c = "backup"
    <3>1. counter'["og"] < POLL_LIMIT /\ counter'["backup"] = 0
      BY <1>0, <2>2, <2>4, <2>5, <2>7 DEF CountersAt
    <3>2. Below(counter')
      BY <1>0, <3>1 DEF Below
    <3>3. pc' = [pc EXCEPT ![r] = "done"]
      BY <2>1, <2>7
    <3> QED BY <1>4, <1>7, <2>4, <3>2, <3>3
  <2> QED BY <2>2, <2>6, <2>7
<1>10. CASE \/ \E q \in Requests : Issue(q)
            \/ Complete \/ Select \/ Interrupted \/ HandleUDP
            \/ \E d \in net : Minion(d) \/ Arrive(d) \/ Lose(d)
            \/ \E u \in Uid : MapRace(u)
            \/ \E m \in Minions : MinionRestart(m)
            \/ UNCHANGED vars
  <2>1. UNCHANGED <<pc, counter, reg>>
    BY <1>10 DEF Issue, Complete, Select, Interrupted, HandleUDP, Minion, MinionWrite,
                 MinionRead, Arrive, Lose, MapRace, MinionRestart, vars, aiVars
  <2> QED BY <1>1, <2>1
<1> QED BY <1>2, <1>3, <1>8, <1>9, <1>10, <1>11, <1>12, <1>13, <1>14, <1>15
        DEF Next, Reactor, Timer

(* The counters, which WriteAIFunc compares with == only, never step over  *)
(* the limit as long as one AI has ended before the next one fires: for    *)
(* every limit and any number of writes.  (Two AIs in WriteAIFunc at once  *)
(* can: one counts on between the other's store and its reset.)            *)
THEOREM CountersTheorem == Spec => [](PromptTimers => CountersHitLimit)
<1>1. Init => (PromptTimers => CountersOK)
  BY DriveAssumption DEF Init, CountersOK, Firing, Both, Below, Copies, Counting, Ending
<1>2. Inv /\ (PromptTimers => CountersOK) /\ [Next]_vars => (PromptTimers => CountersOK)'
  BY CountersOKNext
<1>3. Inv /\ (PromptTimers => CountersOK) => (PromptTimers => CountersHitLimit)
  <2> SUFFICES ASSUME Inv, CountersOK, NEW c \in Copies PROVE counter[c] <= POLL_LIMIT
    BY DEF CountersHitLimit
  <2>1. counter["og"] <= POLL_LIMIT /\ counter["backup"] <= POLL_LIMIT
    <3>1. CASE \E r \in Rid : Firing(r)
      BY <3>1 DEF CountersOK, CountersAt
    <3>2. CASE \A r \in Rid : ~Firing(r)
      <4>1. counter["og"] \in Nat /\ counter["backup"] \in Nat /\ POLL_LIMIT \in Nat
        BY DriveAssumption DEF Inv, TypeOK, Copies
      <4> QED BY <3>2, <4>1 DEF CountersOK, Below
    <3> QED BY <3>1, <3>2
  <2> QED BY <2>1 DEF Copies
<1> QED BY <1>1, <1>2, <1>3, InitInv, NextInv, PTL DEF Spec
=============================================================================
