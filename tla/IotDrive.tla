------------------------------ MODULE IotDrive ------------------------------
(***************************************************************************)
(* The path of a block request through the whole system:                   *)
(*                                                                         *)
(*   kernel / NBD thread  -- TCP -->  reactor thread  -->  worker          *)
(*   worker  -- UDP -->  minions  -- UDP -->  reactor thread               *)
(*   reactor thread (reads) or timer thread (writes)  -- TCP -->  NBD      *)
(*                                                                         *)
(* Requests are numbered 1, 2, ... in the order in which the kernel issues *)
(* them, one block each.  The command that serves request r, and the AI    *)
(* that polls for its responses, are followed by pc[r]:                    *)
(*                                                                         *)
(*   none -> queued -> sendOg (-> sendBackup) -> sched                     *)
(*   sched -> pollBackup (-> done)                                         *)
(*   pollBackup (-> loadOg -> storeOg) (-> loadBackup -> storeBackup)      *)
(*     -> testOg (-> testBackup) -> sched | notify                         *)
(*   notify -> resetOg -> resetBackup -> done                              *)
(*                                                                         *)
(* Scheduler and ThreadPool are abstracted: a scheduled AI fires at any    *)
(* time, a queued command is picked up by some worker at any time.         *)
(***************************************************************************)
EXTENDS ResponseManager, UdpNetwork, MinionStore

CONSTANTS MaxRequests,     \* bound: requests the kernel issues
          Blocks,          \* volume offsets the kernel uses
          Requests,        \* requests the kernel issues
          POLL_LIMIT,      \* polls until a write is given up (50)
          BlockLen,        \* units of a block in the TCP stream
          StatusLen,       \* units of a status text in the TCP stream
          MaxShort,        \* bound: recv calls that return less than is there
          FirstFd,         \* the fd that m_map's hash order serves first
          MaxInterrupts,   \* bound: select calls that fail (EINTR)
          PromptTimers     \* does a firing AI end before the next one fires?

Fds == {"nbd", "udp"}

Request == [op : {"read", "write"}, offset : Blocks, data : Values]
NoRequest == [op |-> "none"]

ASSUME DriveAssumption ==
  /\ MaxRequests \in Nat \ {0}
  /\ Blocks \subseteq 0 .. (MEMORY - 1)
  /\ Requests \subseteq Request
  /\ POLL_LIMIT \in Nat \ {0}
  /\ BlockLen \in Nat \ {0} /\ StatusLen \in 1 .. BlockLen
  /\ MaxShort \in Nat
  /\ FirstFd \in Fds
  /\ MaxInterrupts \in Nat
  /\ PromptTimers \in BOOLEAN

Rid     == 1 .. MaxRequests
Copies  == {"og", "backup"}

Failures == {"couldnt write og", "couldnt write backup"}
Replies  == {"Success"} \cup Failures

(* Where WriteAIFunc is between its second poll and its return.            *)
LoadAt  == [og |-> "loadOg",  backup |-> "loadBackup"]
StoreAt == [og |-> "storeOg", backup |-> "storeBackup"]
TestAt  == [og |-> "testOg",  backup |-> "testBackup"]
ResetAt == [og |-> "resetOg", backup |-> "resetBackup"]

Counting == {"loadOg", "storeOg", "loadBackup", "storeBackup", "testOg", "testBackup"}
Ending   == {"resetOg", "resetBackup"}

PCs == {"none", "queued", "sendOg", "sendBackup", "sched", "pollBackup", "notify",
        "done"} \cup Counting \cup Ending

Places == [minion : Minions, offset : Offsets]

Datagram == [type  : {"ReadMsg", "WriteMsg", "MinionReadMsg", "MinionWriteMsg"},
             uid   : Uid,
             place : Places,
             data  : Values]

(* A unit of the TCP stream from master to NBD thread; of is ghost.        *)
Unit == [of : Rid, val : Values \cup Replies]

VARIABLES
  issued,      \* requests issued so far; the last one is the current one
  nbd,         \* NBD thread: "idle", or "recv" (blocked in Recive)
  tcpUp,       \* requests in the TCP stream to the master
  tcpDown,     \* units in the TCP stream from the master
  todo,        \* fds the reactor still has to serve in this round
  interrupts,  \* failed select calls so far
  inbox,       \* datagrams queued at the master's UDP socket
  pc,          \* command and AI of every request
  uid,         \* m_og_uid, m_backup_uid (0: none)
  seen,        \* og, backup in WriteAIFunc::operator()
  reg,         \* the counter as loaded by a ++ that is not yet stored
  counter,     \* static og_counter, backup_counter
  req,         \* ghost: the request with that number
  stored,      \* ghost: write messages minions have executed
  confirmed,   \* ghost: uids RegisterResponse was called for
  reply,       \* ghost: what NotifySucces sent for a write
  outcome,     \* ghost: what Recive returned for a request
  short        \* ghost: recv calls that returned less than was there

kernelVars == <<issued, nbd, req, outcome, short>>
tcpVars    == <<tcpUp, tcpDown>>
reactVars  == <<todo, interrupts, inbox, confirmed>>
aiVars     == <<seen, reg, counter, reply>>
vars == <<rmVars, netVars, storeVars, kernelVars, tcpVars, reactVars, aiVars,
          pc, uid, stored>>

IsWrite(r) == req[r].op = "write"

PlaceOf(c, offset) ==
  IF c = "og" THEN OffsetToProxy(offset)[1] ELSE OffsetToProxy(offset)[2]

Message(type, u, place, data) ==
  [type |-> type, uid |-> u, place |-> place, data |-> data]

ToMinion(d) == d.type \in {"ReadMsg", "WriteMsg"}

Both(x) == [c \in Copies |-> x]

Init ==
  /\ RMInit /\ NetInit /\ StoreInit
  /\ issued = 0 /\ nbd = "idle"
  /\ tcpUp = <<>> /\ tcpDown = <<>>
  /\ todo = {} /\ interrupts = 0 /\ inbox = <<>> /\ confirmed = {}
  /\ pc = [r \in Rid |-> "none"]
  /\ uid = [r \in Rid |-> Both(0)]
  /\ seen = [r \in Rid |-> Both(FALSE)]
  /\ reg = [r \in Rid |-> 0]
  /\ counter = Both(0)
  /\ reply = [r \in Rid |-> "none"]
  /\ req = [r \in Rid |-> NoRequest]
  /\ outcome = [r \in Rid |-> <<>>] /\ short = 0
  /\ stored = {}

-----------------------------------------------------------------------------
(* NBD thread (raz_nbd.cpp, buse.cpp)                                      *)

(* serve_nbd reads a request of the kernel; NBDRead or NBDWrite sends it   *)
(* to the master and blocks in Recive.                                     *)
Issue(q) ==
  /\ nbd = "idle" /\ issued < MaxRequests
  /\ issued' = issued + 1
  /\ req' = [req EXCEPT ![issued + 1] = q]
  /\ tcpUp' = Append(tcpUp, issued + 1)
  /\ nbd' = "recv"
  /\ UNCHANGED <<rmVars, netVars, storeVars, reactVars, aiVars, pc, uid, stored,
                 tcpDown, outcome, short>>

(* What one recv of a block can return at most.                            *)
Available == IF Len(tcpDown) < BlockLen THEN Len(tcpDown) ELSE BlockLen

(* Recive calls recv once, which returns some of what was sent, at most a  *)
(* block: all of it, or less if the rest has not arrived yet.  Whatever it *)
(* is, the kernel is told that the request succeeded, and the rest of a    *)
(* reply stays in the stream.                                              *)
Complete == \E n \in 1 .. Available :
  /\ nbd = "recv"
  /\ n < Available => short < MaxShort
  /\ short' = IF n < Available THEN short + 1 ELSE short
  /\ outcome' = [outcome EXCEPT ![issued] = SubSeq(tcpDown, 1, n)]
  /\ tcpDown' = SubSeq(tcpDown, n + 1, Len(tcpDown))
  /\ nbd' = "idle"
  /\ UNCHANGED <<rmVars, netVars, storeVars, reactVars, aiVars, pc, uid, stored,
                 tcpUp, issued, req>>

NotifySucces(r, val, n) ==
  tcpDown' = tcpDown \o [i \in 1 .. n |-> [of |-> r, val |-> val]]

-----------------------------------------------------------------------------
(* Reactor thread of the master (reactor.cpp, inputproxy.cpp)              *)

Ready == {fd \in Fds : \/ fd = "nbd" /\ tcpUp # <<>>
                       \/ fd = "udp" /\ inbox # <<>>}

(* FDListen::Listen when select returns the fds that are ready.            *)
Select ==
  /\ todo = {} /\ Ready # {}
  /\ todo' = Ready
  /\ UNCHANGED <<rmVars, netVars, storeVars, kernelVars, tcpVars, aiVars, pc, uid,
                 stored, interrupts, inbox, confirmed>>

(* FDListen::Listen when select fails: every fd is reported as ready.      *)
Interrupted ==
  /\ todo = {} /\ interrupts < MaxInterrupts
  /\ todo' = Fds
  /\ interrupts' = interrupts + 1
  /\ UNCHANGED <<rmVars, netVars, storeVars, kernelVars, tcpVars, aiVars, pc, uid,
                 stored, inbox, confirmed>>

(* Reactor::Run serves the reported fds in the order of its map; a handler *)
(* blocks in Recive until there is something to read.                      *)
Turn(fd) == fd \in todo /\ (fd = FirstFd \/ FirstFd \notin todo)

(* NBDProxy::GetArgsKey and ThreadPool::AddTask.                           *)
HandleNBD ==
  /\ Turn("nbd") /\ tcpUp # <<>>
  /\ todo' = todo \ {"nbd"}
  /\ tcpUp' = Tail(tcpUp)
  /\ pc' = [pc EXCEPT ![Head(tcpUp)] = "queued"]
  /\ UNCHANGED <<rmVars, netVars, storeVars, kernelVars, aiVars, uid, stored,
                 tcpDown, interrupts, inbox, confirmed>>

Owner(u) == CHOOSE r \in Rid : \E c \in Copies : uid[r][c] = u

(* Mutant of HandleUDP: the data of a read is not passed on.               *)
HandleUDPNoReply ==
  /\ Turn("udp") /\ inbox # <<>>
  /\ todo' = todo \ {"udp"}
  /\ inbox' = Tail(inbox)
  /\ RegisterResponse(Head(inbox).uid)
  /\ confirmed' = confirmed \cup {Head(inbox).uid}
  /\ UNCHANGED <<netVars, storeVars, kernelVars, aiVars, pc, uid, stored, tcpVars,
                 interrupts>>

(* ResponseProxy::GetArgsKey: a response is registered whatever is known   *)
(* of its uid, and the data of a read goes straight to the NBD thread.     *)
HandleUDP ==
  LET d == Head(inbox) IN
  /\ Turn("udp") /\ inbox # <<>>
  /\ todo' = todo \ {"udp"}
  /\ inbox' = Tail(inbox)
  /\ RegisterResponse(d.uid)
  /\ confirmed' = confirmed \cup {d.uid}
  /\ \/ d.type = "MinionReadMsg" /\ NotifySucces(Owner(d.uid), d.data, BlockLen)
     \/ d.type = "MinionWriteMsg" /\ UNCHANGED tcpDown
  /\ UNCHANGED <<netVars, storeVars, kernelVars, aiVars, pc, uid, stored, tcpUp,
                 interrupts>>

-----------------------------------------------------------------------------
(* Workers of the master (command.cpp, threadpool.cpp)                     *)

(* ReadCommand::Execute, WriteCommand::Execute: the uids are registered.   *)
Register(r) ==
  /\ pc[r] = "queued"
  /\ RegisterCommands(IF IsWrite(r) THEN 2 ELSE 1)
  /\ uid' = [uid EXCEPT ![r] =
               [c \in Copies |-> IF c = "og" THEN m_static_counter
                                 ELSE IF IsWrite(r) THEN m_static_counter + 1 ELSE 0]]
  /\ pc' = [pc EXCEPT ![r] = "sendOg"]
  /\ UNCHANGED <<netVars, storeVars, kernelVars, tcpVars, reactVars, aiVars, stored>>

Request2Minion(r, c) ==
  Message(IF IsWrite(r) THEN "WriteMsg" ELSE "ReadMsg", uid[r][c],
          PlaceOf(c, req[r].offset), req[r].data)

(* MinionProxy::ReadRequest or WriteRequest for the original.  After the   *)
(* last message TPTask::Run creates the AI, which schedules itself.        *)
SendOg(r) ==
  /\ pc[r] = "sendOg"
  /\ Send(Request2Minion(r, "og"))
  /\ pc' = [pc EXCEPT ![r] = IF IsWrite(r) THEN "sendBackup" ELSE "sched"]
  /\ UNCHANGED <<rmVars, storeVars, kernelVars, tcpVars, reactVars, aiVars, uid, stored>>

SendBackup(r) ==
  /\ pc[r] = "sendBackup"
  /\ Send(Request2Minion(r, "backup"))
  /\ pc' = [pc EXCEPT ![r] = "sched"]
  /\ UNCHANGED <<rmVars, storeVars, kernelVars, tcpVars, reactVars, aiVars, uid, stored>>

-----------------------------------------------------------------------------
(* Timer threads of the master (command.cpp, ai.cpp)                       *)

Firing(r) == pc[r] \in {"pollBackup", "notify"} \cup Counting \cup Ending

MayFire(r) == PromptTimers => \A x \in Rid \ {r} : ~Firing(x)

(* Mutant of ReadPoll: the call of NotifySucces that is commented out in   *)
(* ReadAIFunc is made.                                                     *)
ReadPollNotifies(r) ==
  /\ pc[r] = "sched" /\ ~IsWrite(r) /\ MayFire(r)
  /\ PollEntry(uid[r]["og"])
  /\ pc' = [pc EXCEPT ![r] = IF HasResponse(uid[r]["og"]) THEN "done" ELSE "sched"]
  /\ \/ HasResponse(uid[r]["og"]) /\ NotifySucces(r, "Success", StatusLen)
     \/ ~HasResponse(uid[r]["og"]) /\ UNCHANGED tcpDown
  /\ UNCHANGED <<netVars, storeVars, kernelVars, tcpUp, reactVars, aiVars, uid, stored>>

(* ReadAIFunc: HasResponseRecived; AI::Perform reschedules or deletes.     *)
ReadPoll(r) ==
  /\ pc[r] = "sched" /\ ~IsWrite(r) /\ MayFire(r)
  /\ PollEntry(uid[r]["og"])
  /\ pc' = [pc EXCEPT ![r] = IF HasResponse(uid[r]["og"]) THEN "done" ELSE "sched"]
  /\ UNCHANGED <<netVars, storeVars, kernelVars, tcpVars, reactVars, aiVars, uid, stored>>

(* WriteAIFunc, first call of HasResponseRecived.                          *)
WritePollOg(r) ==
  /\ pc[r] = "sched" /\ IsWrite(r) /\ MayFire(r)
  /\ PollEntry(uid[r]["og"])
  /\ seen' = [seen EXCEPT ![r]["og"] = HasResponse(uid[r]["og"])]
  /\ pc' = [pc EXCEPT ![r] = "pollBackup"]
  /\ UNCHANGED <<netVars, storeVars, kernelVars, tcpVars, reactVars, uid, stored,
                 reg, counter, reply>>

(* WriteAIFunc, second call, and NotifySucces if both have answered; else  *)
(* the counters of those that have not are increased.                      *)
WritePollBackup(r) ==
  LET backup == HasResponse(uid[r]["backup"])
      both   == seen[r]["og"] /\ backup
  IN
  /\ pc[r] = "pollBackup"
  /\ PollEntry(uid[r]["backup"])
  /\ seen' = [seen EXCEPT ![r] = IF both THEN Both(FALSE)
                                  ELSE [@ EXCEPT !["backup"] = backup]]
  /\ \/ both /\ NotifySucces(r, "Success", StatusLen)
     \/ ~both /\ UNCHANGED tcpDown
  /\ reply' = [reply EXCEPT ![r] = IF both THEN "Success" ELSE @]
  /\ pc' = [pc EXCEPT ![r] = IF both THEN "done"
                             ELSE IF seen[r]["og"] THEN "loadBackup" ELSE "loadOg"]
  /\ UNCHANGED <<netVars, storeVars, kernelVars, reactVars, uid, stored, tcpUp,
                 reg, counter>>

(* ++og_counter, ++backup_counter on plain static ints: load, then store.  *)
LoadCounter(r, c) ==
  /\ pc[r] = LoadAt[c]
  /\ reg' = [reg EXCEPT ![r] = counter[c]]
  /\ pc' = [pc EXCEPT ![r] = StoreAt[c]]
  /\ UNCHANGED <<rmVars, netVars, storeVars, kernelVars, tcpVars, reactVars, uid,
                 stored, seen, counter, reply>>

(* Every value above POLL_LIMIT is as good as POLL_LIMIT + 1: the code     *)
(* compares with == only.                                                  *)
Increment(n) == IF n > POLL_LIMIT THEN n ELSE n + 1

(* After the first counter comes the second one, if that response was not  *)
(* seen either, then the tests.                                            *)
StoreCounter(r, c) ==
  LET next == IF c = "og" /\ ~seen[r]["backup"] THEN "loadBackup" ELSE "testOg" IN
  /\ pc[r] = StoreAt[c]
  /\ counter' = [counter EXCEPT ![c] = Increment(reg[r])]
  /\ reg' = [reg EXCEPT ![r] = 0]
  /\ seen' = [seen EXCEPT ![r] = IF next = "testOg" THEN Both(FALSE) ELSE @]
  /\ pc' = [pc EXCEPT ![r] = next]
  /\ UNCHANGED <<rmVars, netVars, storeVars, kernelVars, tcpVars, reactVars, uid,
                 stored, reply>>

(* 50 == og_counter || 50 == backup_counter; if neither is, operator()     *)
(* returns false and the AI reschedules itself.                            *)
TestCounter(r, c) ==
  /\ pc[r] = TestAt[c]
  /\ pc' = [pc EXCEPT ![r] = IF counter[c] = POLL_LIMIT THEN "notify"
                             ELSE IF c = "og" THEN "testBackup" ELSE "sched"]
  /\ UNCHANGED <<rmVars, netVars, storeVars, kernelVars, tcpVars, reactVars, aiVars,
                 uid, stored>>

(* Mutant of GiveUp: the timeout is not reported.                          *)
GiveUpSilent(r) ==
  /\ pc[r] = "notify"
  /\ pc' = [pc EXCEPT ![r] = "resetOg"]
  /\ UNCHANGED <<rmVars, netVars, storeVars, kernelVars, tcpVars, reactVars, aiVars,
                 uid, stored>>

(* Mutant of GiveUp: the timeout is reported and the AI goes on polling.   *)
GiveUpAgain(r) ==
  /\ pc[r] = "notify"
  /\ NotifySucces(r, "couldnt write og", StatusLen)
  /\ reply' = [reply EXCEPT ![r] = "couldnt write og"]
  /\ pc' = [pc EXCEPT ![r] = "sched"]
  /\ UNCHANGED <<rmVars, netVars, storeVars, kernelVars, reactVars, uid, stored,
                 tcpUp, seen, reg, counter>>

(* At the limit the NBD thread is told, with a text that names the copy    *)
(* according to what og_counter holds now.                                 *)
GiveUp(r) ==
  LET text == IF counter["og"] = POLL_LIMIT THEN "couldnt write og"
                                            ELSE "couldnt write backup"
  IN
  /\ pc[r] = "notify"
  /\ NotifySucces(r, text, StatusLen)
  /\ reply' = [reply EXCEPT ![r] = text]
  /\ pc' = [pc EXCEPT ![r] = "resetOg"]
  /\ UNCHANGED <<rmVars, netVars, storeVars, kernelVars, reactVars, uid, stored,
                 tcpUp, seen, reg, counter>>

(* Mutant of ResetCounter: backup_counter is forgotten.                    *)
ResetCounterOgOnly(r, c) ==
  /\ pc[r] = ResetAt[c]
  /\ counter' = [counter EXCEPT !["og"] = 0]
  /\ pc' = [pc EXCEPT ![r] = IF c = "og" THEN "resetBackup" ELSE "done"]
  /\ UNCHANGED <<rmVars, netVars, storeVars, kernelVars, tcpVars, reactVars, uid,
                 stored, seen, reg, reply>>

(* The static counters are cleared and operator() returns true: the AI is  *)
(* deleted.                                                                *)
ResetCounter(r, c) ==
  /\ pc[r] = ResetAt[c]
  /\ counter' = [counter EXCEPT ![c] = 0]
  /\ pc' = [pc EXCEPT ![r] = IF c = "og" THEN "resetBackup" ELSE "done"]
  /\ UNCHANGED <<rmVars, netVars, storeVars, kernelVars, tcpVars, reactVars, uid,
                 stored, seen, reg, reply>>

(* Threads whose next step is a call on the unsynchronised watch list.     *)
AtMap == {r \in Rid : pc[r] \in {"queued", "sched", "pollBackup"}}
           \cup {x \in {0} : Turn("udp") /\ inbox # <<>>}

MapRace(u) ==
  /\ \E x, y \in AtMap : x # y
  /\ LoseEntry(u)
  /\ UNCHANGED <<netVars, storeVars, kernelVars, tcpVars, reactVars, aiVars, pc, uid,
                 stored>>

-----------------------------------------------------------------------------
(* Minions and network (command.cpp, inputproxy.cpp, socket.cpp)           *)

(* MinionWriteCmd::Execute and MasterProxy::WriteResponse.                 *)
MinionWrite(d) ==
  /\ d.type = "WriteMsg"
  /\ StoreBlock(d.place, d.data)
  /\ Deliver(d, {Message("MinionWriteMsg", d.uid, d.place, Zero)})
  /\ stored' = stored \cup {[uid |-> d.uid, place |-> d.place, data |-> d.data]}
  /\ UNCHANGED <<rmVars, kernelVars, tcpVars, reactVars, aiVars, pc, uid>>

(* Mutant of MinionRead: the other half of the file is read.               *)
MinionReadShifted(d) ==
  /\ d.type = "ReadMsg"
  /\ Touch(d.place.minion)
  /\ Deliver(d, {Message("MinionReadMsg", d.uid, d.place,
                  FetchBlock([d.place EXCEPT !.offset = (@ + MINION_SIZE) % (2 * MINION_SIZE)]))})
  /\ UNCHANGED <<rmVars, kernelVars, tcpVars, reactVars, aiVars, pc, uid, stored>>

(* MinionReadCmd::Execute and MasterProxy::ReadResponse.                   *)
MinionRead(d) ==
  /\ d.type = "ReadMsg"
  /\ Touch(d.place.minion)
  /\ Deliver(d, {Message("MinionReadMsg", d.uid, d.place, FetchBlock(d.place))})
  /\ UNCHANGED <<rmVars, kernelVars, tcpVars, reactVars, aiVars, pc, uid, stored>>

(* A response reaches the socket of the master.                            *)
Arrive(d) ==
  /\ ~ToMinion(d)
  /\ Deliver(d, {})
  /\ inbox' = Append(inbox, d)
  /\ UNCHANGED <<rmVars, storeVars, kernelVars, tcpVars, aiVars, pc, uid, stored,
                 todo, interrupts, confirmed>>

Lose(d) ==
  /\ Drop(d)
  /\ UNCHANGED <<rmVars, storeVars, kernelVars, tcpVars, reactVars, aiVars, pc, uid,
                 stored>>

(* The process of minion m ends and is started again.  With it goes the    *)
(* command that it was executing, unanswered, and whatever waited in its   *)
(* socket or was sent while it was down.                                   *)
MinionRestart(m) ==
  /\ Restart(m)
  /\ \E D \in SUBSET {d \in net : ToMinion(d) /\ d.place.minion = m} : Vanish(D)
  /\ UNCHANGED <<rmVars, kernelVars, tcpVars, reactVars, aiVars, pc, uid,
                 stored>>

-----------------------------------------------------------------------------
Worker(r) == Register(r) \/ SendOg(r) \/ SendBackup(r)

Timer(r) == \/ ReadPoll(r) \/ WritePollOg(r) \/ WritePollBackup(r)
            \/ \E c \in Copies : \/ LoadCounter(r, c) \/ StoreCounter(r, c)
                                 \/ TestCounter(r, c) \/ ResetCounter(r, c)
            \/ GiveUp(r)

Reactor == Select \/ HandleNBD \/ HandleUDP

Minion(d) == MinionWrite(d) \/ MinionRead(d)

Next ==
  \/ \E q \in Requests : Issue(q)
  \/ Complete
  \/ Reactor \/ Interrupted
  \/ \E r \in Rid : Worker(r) \/ Timer(r)
  \/ \E d \in net : Minion(d) \/ Arrive(d) \/ Lose(d)
  \/ \E u \in Uid : MapRace(u)
  \/ \E m \in Minions : MinionRestart(m)

Spec == Init /\ [][Next]_vars

(* Every thread keeps running and what is not lost is delivered.  Nothing  *)
(* is assumed of the kernel, of losses, races, signals and restarts.       *)
Fairness ==
  /\ WF_vars(Complete) /\ WF_vars(Reactor)
  /\ \A r \in Rid : WF_vars(Worker(r)) /\ WF_vars(Timer(r))
  /\ WF_vars(\E d \in net : Minion(d))
  /\ WF_vars(\E d \in net : Arrive(d))

FairSpec == Spec /\ Fairness

-----------------------------------------------------------------------------
(* Type invariant.                                                         *)
TypeOK ==
  /\ RMTypeOK /\ StoreTypeOK
  /\ net \subseteq Datagram /\ dups \in 0 .. MaxDups /\ lost \subseteq Uid
  /\ issued \in 0 .. MaxRequests /\ nbd \in {"idle", "recv"}
  /\ tcpUp \in Seq(Rid) /\ tcpDown \in Seq(Unit)
  /\ todo \subseteq Fds /\ interrupts \in 0 .. MaxInterrupts
  /\ inbox \in Seq(Datagram) /\ confirmed \subseteq Uid
  /\ pc \in [Rid -> PCs]
  /\ uid \in [Rid -> [Copies -> 0 .. MaxUid]]
  /\ seen \in [Rid -> [Copies -> BOOLEAN]]
  /\ reg \in [Rid -> 0 .. (POLL_LIMIT + 1)]
  /\ counter \in [Copies -> 0 .. (POLL_LIMIT + 1)]
  /\ req \in [Rid -> Request \cup {NoRequest}]
  /\ reply \in [Rid -> Replies \cup {"none"}]
  /\ outcome \in [Rid -> Seq(Unit)] /\ short \in 0 .. MaxShort
  /\ stored \subseteq [uid : Uid, place : Places, data : Values]

(* The minion of copy c of request r has executed the write it was sent.   *)
Stored(r, c) == [uid   |-> uid[r][c],
                 place |-> PlaceOf(c, req[r].offset),
                 data  |-> req[r].data] \in stored

(* WriteAIFunc reports "Success" for a write only when both minions have   *)
(* executed exactly that write at the two places of its block, whatever    *)
(* the network lost, repeated or delayed and whatever races on the watch   *)
(* list lost (README: "replicated writes can be confirmed").               *)
SuccessMeansReplicated ==
  \A r \in Rid : reply[r] = "Success" => \A c \in Copies : Stored(r, c)

(* The step sends something for request r to the NBD thread.               *)
Sends(r) == \E i \in (Len(tcpDown) + 1) .. Len(tcpDown') : tcpDown'[i].of = r

(* WriteAIFunc answers a write at most once: whatever is sent for a write  *)
(* is the first thing sent for it, with whichever text.  No poll, timeout  *)
(* or late response puts a second reply into the TCP stream.               *)
OneReply == [][\A r \in Rid : /\ reply[r] # "none" => reply'[r] = reply[r]
                              /\ IsWrite(r) /\ Sends(r)
                                   => reply[r] = "none" /\ reply'[r] # "none"]_vars

(* As long as no datagram was delivered twice and no recv returned less    *)
(* than was sent, the stream stays in step: what Recive returns for a      *)
(* request is the reply to that request, whole, although the stream        *)
(* carries no request number and Recive does not know how much to expect   *)
(* (NBDRead, NBDWrite).                                                    *)
RepliesInStep ==
  \A r \in Rid : outcome[r] # <<>> /\ dups = 0 /\ short = 0 =>
    /\ \A i \in DOMAIN outcome[r] : outcome[r][i].of = r
    /\ Len(outcome[r]) = IF IsWrite(r) THEN StatusLen ELSE BlockLen

WritesTo(o, r) == {w \in 1 .. (r - 1) : IsWrite(w) /\ req[w].offset = o}

(* What the last write to block o before request r wrote.                  *)
LastWritten(o, r) ==
  IF WritesTo(o, r) = {} THEN Zero
  ELSE req[CHOOSE w \in WritesTo(o, r) : \A x \in WritesTo(o, r) : x <= w].data

ReadReturns(r, val) == outcome[r] = [i \in 1 .. BlockLen |-> [of |-> r, val |-> val]]

CompletedReads == {r \in Rid : req[r].op = "read" /\ outcome[r] # <<>>}

(* A read returns the last write to its block if every write to that block *)
(* before it was confirmed (MinionReadCmd, WriteCommand) and no recv has   *)
(* put the stream out of step: no message of an older write is under way.  *)
ReadsSeeLastWrite ==
  \A r \in CompletedReads :
    short = 0 /\ (\A w \in WritesTo(req[r].offset, r) : reply[w] = "Success")
      => ReadReturns(r, LastWritten(req[r].offset, r))

(* When the NBD thread is idle, in step with the stream, and every write   *)
(* was confirmed, both copies of every block hold what was last written to *)
(* it (RAID 10).                                                           *)
MirrorsAgree ==
  nbd = "idle" /\ short = 0 /\ (\A r \in 1 .. issued : IsWrite(r) => reply[r] = "Success")
    => \A o \in Blocks, c \in Copies :
         FetchBlock(PlaceOf(c, o)) = LastWritten(o, issued + 1)

(* As long as every write was confirmed, no datagram repeated and no reply *)
(* cut by a short recv, at most one command is under way to each minion:   *)
(* the next request is issued after the responses of the last one          *)
(* (NBDWrite, WriteAIFunc), so that the workers of a minion never meet at  *)
(* its fstream (GetBinFile).  The environment of MinionFile.               *)
OneCommandPerMinion ==
  dups = 0 /\ short = 0 /\ (\A r \in Rid : reply[r] \notin Failures)
    => \A m \in Minions :
         \A d, e \in {x \in net : ToMinion(x) /\ x.place.minion = m} : d = e

(* The counters never step over the value that WriteAIFunc compares them   *)
(* with by ==, or writes would never be given up again.                    *)
CountersHitLimit == \A c \in Copies : counter[c] <= POLL_LIMIT

(* Whatever is lost, the NBD thread does not wait for ever in NBDWrite: if *)
(* not before, it is told after POLL_LIMIT polls (WriteAIFunc).            *)
WriteAnswered == (nbd = "recv" /\ IsWrite(issued)) ~> (nbd = "idle")

(* Nor in NBDRead, unless the request or its response was lost, by the     *)
(* network or with a minion that was restarted: ReadCommand sends once,    *)
(* and nothing but such a loss keeps ResponseProxy from passing the data   *)
(* on.                                                                     *)
ReadAnswered == (nbd = "recv" /\ ~IsWrite(issued))
                  ~> (nbd = "idle" \/ uid[issued]["og"] \in lost)

-----------------------------------------------------------------------------
(* What the documents say of the system and the code does not keep.        *)

(* reactor-flow.puml:32-33: a write is polled until both responses are     *)
(* there and then reported as a success.  So a write whose two responses   *)
(* were both registered, and both seen by a poll, is not reported as a     *)
(* failure.                                                                *)
ConfirmedMeansSuccess ==
  [][\A r \in Rid : reply[r] = "none" /\ reply'[r] \in Failures
       => \E c \in Copies : uid[r][c] \notin confirmed \/ HasResponse(uid[r][c])]_vars

(* README:5: every write is mirrored.  So the kernel is told that a write  *)
(* is complete only when both minions have executed it.                    *)
CompleteMeansMirrored ==
  \A r \in Rid : IsWrite(r) /\ outcome[r] # <<>> => \A c \in Copies : Stored(r, c)
=============================================================================
