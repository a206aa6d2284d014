----------------------------- MODULE NbdServer ------------------------------
(***************************************************************************)
(* The user side of the nbd device (buse_main, serve_nbd in buse.cpp, with *)
(* NBD::Run and the operations of raz_nbd.cpp): the constructor of         *)
(* NBDProxy, which starts the thread of NBD::Run and the one that makes    *)
(* the file system; a parent that serves requests from one end of a socket *)
(* pair, a child that hands the other end to the kernel and stays in       *)
(* NBD_DO_IT, and signals that ask the kernel to disconnect.               *)
(*                                                                         *)
(*   main:   listen -> spawn -> accept -> run                              *)
(*   mkfs:   none -> sleep -> mkfs -> mount -> done                        *)
(*   parent: none -> connect -> fork -> sigaction -> loop (-> payload)     *)
(*           (-> serve) -> answer (-> data) -> loop;                       *)
(*           loop -> close -> wait -> returned                             *)
(*   child:  setup -> flags -> doit -> clear -> exited                     *)
(*                                                                         *)
(* The parent is "refused" once buse_main has returned without serving,    *)
(* "killed" when a signal, an exception or an assertion of the setup ends  *)
(* the process, "aborted" when an assertion of serve_nbd does.             *)
(*                                                                         *)
(* A header is one unit of the socket, data are PayloadLen units.  How the *)
(* master answers a read or a write is the subject of IotDrive.            *)
(***************************************************************************)
EXTENDS Integers, Sequences

CONSTANTS MaxRequests,  \* bound: requests of the kernel
          PayloadLen,   \* units of data of a read or a write
          MaxSignals    \* bound: SIGINTs and SIGTERMs

ASSUME NbdAssumption ==
  MaxRequests \in Nat /\ PayloadLen \in Nat \ {0} /\ MaxSignals \in Nat

Handles == 1 .. MaxRequests
Ops     == {"read", "write", "flush", "trim"}

VARIABLES
  main, tcp,               \* NBDProxy::NBDProxy: where it is; its TCP socket
  mkfs,                    \* where MKFSAndMount is
  device,                  \* /dev/nbd0: usable, denied or missing
  up, down,                \* socket pair, from and to the kernel
  parent, cur, got,        \* parent: where it is, its request, payload read so far
  child,                   \* where the child is
  nbd_dev_to_disconnect,   \* is it set?
  handlers,                \* are the signal handlers installed?
  sock,                    \* kernel: does the device have a socket?
  op, sent, answered,      \* kernel: requests, how many, which are answered
  confused,                \* kernel: has it read something else than a reply?
  signals,                 \* signals so far
  asked,                   \* kernel: has a disconnect been requested?
  wanted,                  \* ghost: has a signal met a connected device?
  short                    \* ghost: has a read returned a part of a header?

kernelVars == <<sock, op, sent, answered, confused>>
signalVars == <<nbd_dev_to_disconnect, handlers, signals, asked, wanted>>
startVars == <<main, tcp, mkfs, device>>
vars == <<startVars, up, down, parent, cur, got, child, kernelVars, signalVars, short>>

Header(o, h) == [kind |-> "header", op |-> o, handle |-> h]
Data(h)      == [kind |-> "data", handle |-> h]
Payload(h)   == [n \in 1 .. PayloadLen |-> Data(h)]
Disc         == [kind |-> "header", op |-> "disc", handle |-> 0]

Init ==
  /\ main = "listen" /\ tcp = "closed" /\ mkfs = "none"
  /\ device \in {"usable", "denied", "missing"}
  /\ up = <<>> /\ down = <<>>
  /\ parent = "none" /\ cur = 0 /\ got = 0 /\ child = "none"
  /\ nbd_dev_to_disconnect = FALSE /\ handlers = FALSE
  /\ sock = FALSE /\ op = [h \in Handles |-> "none"] /\ sent = 0
  /\ answered = {} /\ confused = FALSE
  /\ signals = 0 /\ asked = FALSE /\ wanted = FALSE /\ short = FALSE

Parent(from, to) == parent = from /\ parent' = to
Child(from, to)  == child = from /\ child' = to

-----------------------------------------------------------------------------
(* main: the constructor of NBDProxy                                       *)

Running == parent \notin {"killed", "aborted"}

Main(from, to) == Running /\ main = from /\ main' = to

TCPListen ==
  /\ Main("listen", "spawn")
  /\ tcp' = "open"
  /\ UNCHANGED <<mkfs, device, up, down, parent, cur, got, child, kernelVars, signalVars, short>>

(* Mutant of Spawn: the thread is started after TCPAccept.                 *)
SpawnLate ==
  /\ \/ Main("spawn", "accept") /\ UNCHANGED parent
     \/ Main("run", "run") /\ Parent("none", "connect")
  /\ UNCHANGED <<tcp, mkfs, device, up, down, cur, got, child, kernelVars, signalVars, short>>

(* The thread of NBD::Run.                                                 *)
Spawn ==
  /\ Main("spawn", "accept") /\ Parent("none", "connect")
  /\ UNCHANGED <<tcp, mkfs, device, up, down, cur, got, child, kernelVars, signalVars, short>>

(* TCPAccept waits for a connection; then the thread of MKFSAndMount.      *)
TCPAccept ==
  /\ Main("accept", "run") /\ tcp = "pending"
  /\ tcp' = "accepted"
  /\ mkfs' = "sleep"
  /\ UNCHANGED <<device, up, down, parent, cur, got, child, kernelVars, signalVars, short>>

(* MKFSAndMount: a wait as long as the device is missing (IsBusy).  The    *)
(* five seconds before it are taken to outlast the setup of the child,     *)
(* which IsBusy does not look at.                                          *)
WaitDevice ==
  /\ Running /\ mkfs = "sleep" /\ device # "missing"
  /\ parent \notin {"fork", "sigaction"} /\ child \notin {"setup", "flags"}
  /\ mkfs' = "mkfs"
  /\ UNCHANGED <<main, tcp, device, up, down, parent, cur, got, child, kernelVars, signalVars, short>>

(* mkfs.ext2 and mount may fail, on a device that is not connected they    *)
(* do, and the exception of NotEqualToCheck ends the process.  Neither     *)
(* returns from a device that nobody serves.                               *)
MKFSAndMount ==
  /\ Running /\ mkfs \in {"mkfs", "mount"}
  /\ \/ /\ child = "doit" /\ ~asked /\ parent # "refused"
        /\ mkfs' = IF mkfs = "mkfs" THEN "mount" ELSE "done"
        /\ UNCHANGED parent
     \/ /\ ~(child = "doit" /\ parent = "refused")
        /\ mkfs' = "failed" /\ parent' = "killed"
  /\ UNCHANGED <<main, tcp, device, up, down, cur, got, child, kernelVars, signalVars, short>>

Startup == TCPListen \/ Spawn \/ TCPAccept \/ WaitDevice \/ MKFSAndMount

-----------------------------------------------------------------------------
(* Parent: NBD::Run and buse_main                                          *)

(* TCPConnect does not look at what connect returns.                       *)
TCPConnect ==
  /\ Parent("connect", "fork")
  /\ tcp' = IF tcp = "open" THEN "pending" ELSE tcp
  /\ UNCHANGED <<main, mkfs, device, up, down, cur, got, child, kernelVars, signalVars, short>>

(* buse_main: socketpair, open, the size ioctls and fork.  A device that   *)
(* cannot be opened makes it return; the other failures meet an assertion, *)
(* except that of fork, whose result is taken for a pid.                   *)
SetDevice ==
  /\ parent = "fork"
  /\ \/ /\ device # "usable"
        /\ parent' = "refused"
        /\ UNCHANGED <<child, nbd_dev_to_disconnect>>
     \/ /\ parent' = "killed"
        /\ UNCHANGED <<child, nbd_dev_to_disconnect>>
     \/ /\ device = "usable"
        /\ parent' = "sigaction"
        /\ child' \in {"setup", "failed"}
        /\ nbd_dev_to_disconnect' = TRUE
  /\ UNCHANGED <<startVars, up, down, cur, got, kernelVars, handlers, signals, asked, wanted, short>>

(* The signal mask and the two set_sigaction calls, with close(sp[1]), or  *)
(* one fails and buse_main returns; the child runs on.                     *)
SetHandlers ==
  /\ \/ Parent("sigaction", "loop") /\ handlers' = TRUE
     \/ Parent("sigaction", "refused") /\ UNCHANGED handlers
  /\ UNCHANGED <<startVars, up, down, cur, got, child, kernelVars, nbd_dev_to_disconnect, signals, asked, wanted, short>>

(* Mutant of ReadRequest: a flush is not answered.                         *)
ReadRequestNoFlush ==
  /\ parent = "loop" /\ up # <<>>
  /\ up' = Tail(up)
  /\ cur' = Head(up).handle
  /\ got' = 0
  /\ parent' = CASE Head(up).kind = "data"            -> "aborted"
                 [] Head(up).op = "disc"              -> "close"
                 [] Head(up).op = "write"             -> "payload"
                 [] Head(up).op = "read"              -> "serve"
                 [] Head(up).op = "flush"             -> "loop"
                 [] Head(up).op = "trim"              -> "answer"
  /\ UNCHANGED <<startVars, down, child, kernelVars, signalVars, short>>

(* serve_nbd: a request is read, its magic asserted; NBDFlush and NBDTrim  *)
(* return at once, NBDDisc ends the loop.  The read takes a whole header.  *)
ReadRequest ==
  /\ parent = "loop" /\ up # <<>>
  /\ up' = Tail(up)
  /\ cur' = Head(up).handle
  /\ got' = 0
  /\ parent' = CASE Head(up).kind = "data"            -> "aborted"
                 [] Head(up).op = "disc"              -> "close"
                 [] Head(up).op = "write"             -> "payload"
                 [] Head(up).op = "read"              -> "serve"
                 [] Head(up).op \in {"flush", "trim"} -> "answer"
  /\ UNCHANGED <<startVars, down, child, kernelVars, signalVars, short>>

(* A read may return less than a header; the assertion behind it fails.    *)
ReadShort ==
  /\ Parent("loop", "aborted") /\ up # <<>>
  /\ short' = TRUE
  /\ UNCHANGED <<startVars, up, down, cur, got, child, kernelVars, signalVars>>

(* Mutants of ReadPayload: whatever one read returns is the payload; more  *)
(* than is still missing may be read.                                      *)
ReadPayloadOnce(n) ==
  /\ parent = "payload" /\ n \in 1 .. (PayloadLen - got) /\ n <= Len(up)
  /\ up' = SubSeq(up, n + 1, Len(up))
  /\ got' = got + n
  /\ parent' = "serve"
  /\ UNCHANGED <<startVars, down, cur, child, kernelVars, signalVars, short>>

ReadPayloadAll(n) ==
  /\ parent = "payload" /\ n \in 1 .. PayloadLen /\ n <= Len(up)
  /\ up' = SubSeq(up, n + 1, Len(up))
  /\ got' = got + n
  /\ parent' = IF got' >= PayloadLen THEN "serve" ELSE "payload"
  /\ UNCHANGED <<startVars, down, cur, child, kernelVars, signalVars, short>>

(* One read of read_all: it may return a part of what is asked for.        *)
ReadPayload(n) ==
  /\ parent = "payload" /\ n \in 1 .. (PayloadLen - got) /\ n <= Len(up)
  /\ up' = SubSeq(up, n + 1, Len(up))
  /\ got' = got + n
  /\ parent' = IF got' = PayloadLen THEN "serve" ELSE "payload"
  /\ UNCHANGED <<startVars, down, cur, child, kernelVars, signalVars, short>>

(* NBDRead or NBDWrite returns 0.                                          *)
Serve ==
  /\ Parent("serve", "answer")
  /\ UNCHANGED <<startVars, up, down, cur, got, child, kernelVars, signalVars, short>>

(* write_all of the reply, with the handle of the request ...              *)
Answer ==
  /\ Parent("answer", IF op[cur] = "read" THEN "data" ELSE "loop")
  /\ down' = Append(down, Header("reply", cur))
  /\ UNCHANGED <<startVars, up, cur, got, child, kernelVars, signalVars, short>>

(* ... and, for a read, of the data.                                       *)
AnswerData ==
  /\ Parent("data", "loop")
  /\ down' = down \o Payload(cur)
  /\ UNCHANGED <<startVars, up, cur, got, child, kernelVars, signalVars, short>>

ChildEnded == child \in {"exited", "failed"}

(* read returns 0 when nobody holds the other end any more.                *)
EndOfFile ==
  /\ Parent("loop", "close")
  /\ up = <<>> /\ ChildEnded /\ ~sock
  /\ UNCHANGED <<startVars, up, down, cur, got, child, kernelVars, signalVars, short>>

Close ==
  /\ Parent("close", "wait")
  /\ UNCHANGED <<startVars, up, down, cur, got, child, kernelVars, signalVars, short>>

(* waitpid; buse_main returns the exit status of the child.                *)
WaitPid ==
  /\ Parent("wait", "returned") /\ ChildEnded
  /\ UNCHANGED <<startVars, up, down, cur, got, child, kernelVars, signalVars, short>>

Server == \/ TCPConnect \/ SetDevice \/ SetHandlers \/ ReadRequest \/ ReadShort
          \/ (\E n \in 1 .. PayloadLen : ReadPayload(n))
          \/ Serve \/ Answer \/ AnswerData \/ EndOfFile \/ Close \/ WaitPid

-----------------------------------------------------------------------------
(* Child, with all signals blocked                                         *)

(* NBD_SET_SOCK, which fails if the device is in use.                      *)
SetSock ==
  /\ child = "setup"
  /\ \/ child' = "flags" /\ sock' = TRUE
     \/ child' = "failed" /\ UNCHANGED sock
  /\ UNCHANGED <<startVars, up, down, parent, cur, got, op, sent, answered, confused, signalVars, short>>

SetFlags ==
  /\ child = "flags" /\ child' \in {"doit", "failed"}
  /\ UNCHANGED <<startVars, up, down, parent, cur, got, kernelVars, signalVars, short>>

ParentClosed == parent \in {"wait", "returned", "killed", "aborted"}

(* NBD_DO_IT returns when the other end is closed, after a disconnect with *)
(* 0, else possibly with an error.                                         *)
DoIt ==
  /\ child = "doit" /\ ParentClosed /\ down = <<>>
  /\ \/ child' = "clear" /\ UNCHANGED sock
     \/ ~asked /\ child' = "failed" /\ sock' = FALSE
  /\ UNCHANGED <<startVars, up, down, parent, cur, got, op, sent, answered, confused, signalVars, short>>

(* NBD_CLEAR_QUE, NBD_CLEAR_SOCK, exit(0), or one of them fails.           *)
Clear ==
  /\ \/ Child("clear", "exited") /\ sock' = FALSE
     \/ Child("clear", "failed") /\ UNCHANGED sock
  /\ UNCHANGED <<startVars, up, down, parent, cur, got, op, sent, answered, confused, signalVars, short>>

ChildStep == SetSock \/ SetFlags \/ DoIt \/ Clear

-----------------------------------------------------------------------------
(* Kernel and signals                                                      *)

(* The block layer sends a request, until a disconnect is requested.       *)
Submit(o) ==
  /\ child = "doit" /\ ~asked /\ sent < MaxRequests
  /\ up' = Append(up, Header(o, sent + 1)) \o (IF o = "write" THEN Payload(sent + 1) ELSE <<>>)
  /\ op' = [op EXCEPT ![sent + 1] = o]
  /\ sent' = sent + 1
  /\ UNCHANGED <<startVars, down, parent, cur, got, child, sock, answered, confused, signalVars, short>>

(* It reads the reply to an open request and, for a read, the data behind  *)
(* it; anything else confuses it.                                          *)
Receive ==
  LET r    == Head(down)
      fine == r.kind = "header" /\ r.handle \notin answered
      size == IF op[r.handle] = "read" THEN PayloadLen + 1 ELSE 1
  IN
  /\ down # <<>> /\ ~confused /\ Len(down) >= size
  /\ confused' = ~fine
  /\ down' = SubSeq(down, size + 1, Len(down))
  /\ answered' = answered \cup {r.handle}
  /\ UNCHANGED <<startVars, up, parent, cur, got, child, sock, op, sent, signalVars, short>>

Alive == parent \notin {"returned", "killed", "aborted"}

(* A signal before the handlers are installed ends the process.            *)
EarlySignal ==
  /\ signals < MaxSignals /\ Alive /\ ~handlers
  /\ signals' = signals + 1
  /\ parent' = "killed"
  /\ UNCHANGED <<startVars, up, down, cur, got, child, kernelVars, nbd_dev_to_disconnect, handlers, asked, wanted, short>>

(* Mutant of Signal: the device is forgotten although the ioctl failed.    *)
SignalForgets ==
  /\ signals < MaxSignals /\ Alive /\ handlers
  /\ signals' = signals + 1
  /\ wanted' = (wanted \/ sock)
  /\ nbd_dev_to_disconnect' = FALSE
  /\ \/ /\ nbd_dev_to_disconnect /\ sock
        /\ up' = Append(up, Disc)
        /\ asked' = TRUE
     \/ (~nbd_dev_to_disconnect \/ ~sock) /\ UNCHANGED <<startVars, up, asked>>
  /\ UNCHANGED <<startVars, down, parent, cur, got, child, kernelVars, handlers, short>>

(* disconnect_nbd: NBD_DISCONNECT fails while the device has no socket and *)
(* may then be tried again; otherwise the kernel sends NBD_CMD_DISC behind *)
(* what it has sent.  SA_RESTART hides the signal from read and write.     *)
Signal ==
  /\ signals < MaxSignals /\ Alive /\ handlers
  /\ signals' = signals + 1
  /\ wanted' = (wanted \/ sock)
  /\ \/ /\ nbd_dev_to_disconnect /\ sock
        /\ nbd_dev_to_disconnect' = FALSE
        /\ up' = Append(up, Disc)
        /\ asked' = TRUE
     \/ /\ ~nbd_dev_to_disconnect \/ ~sock
        /\ UNCHANGED <<nbd_dev_to_disconnect, up, asked>>
  /\ UNCHANGED <<startVars, down, parent, cur, got, child, kernelVars, handlers, short>>

Next == \/ Startup \/ Server \/ ChildStep
        \/ (\E o \in Ops : Submit(o)) \/ Receive
        \/ EarlySignal \/ Signal

Spec == Init /\ [][Next]_vars

(* Parent and child run on, the kernel reads what it is sent, and a read   *)
(* or write of the master returns (WriteAnswered, ReadAnswered of          *)
(* IotDrive).  Nobody has to send requests or signals.                     *)
FairSpec == Spec /\ WF_vars(Startup) /\ WF_vars(Server) /\ WF_vars(ChildStep) /\ WF_vars(Receive)

-----------------------------------------------------------------------------
(* Type invariant.                                                         *)
TypeOK ==
  /\ cur \in 0 .. MaxRequests /\ got \in 0 .. PayloadLen
  /\ parent \in {"none", "connect", "fork", "sigaction", "loop", "payload", "serve", "answer", "data",
                 "close", "wait", "returned", "refused", "killed", "aborted"}
  /\ main \in {"listen", "spawn", "accept", "run"}
  /\ tcp \in {"closed", "open", "pending", "accepted"}
  /\ mkfs \in {"none", "sleep", "mkfs", "mount", "done", "failed"}
  /\ device \in {"usable", "denied", "missing"}
  /\ child \in {"none", "setup", "flags", "doit", "clear", "exited", "failed"}
  /\ sent \in 0 .. MaxRequests /\ answered \subseteq 1 .. sent
  /\ op \in [Handles -> Ops \cup {"none"}]
  /\ {nbd_dev_to_disconnect, handlers, sock, confused, asked, wanted, short} \subseteq BOOLEAN

(* Unless a read of a header is short, the assertions of serve_nbd hold,   *)
(* and the kernel finds a reply to an open request wherever it looks for   *)
(* one: both sides stay in frame, however the payload arrives and whatever *)
(* requests are queued.                                                    *)
InFrame == (parent = "aborted" => short) /\ ~confused

Replied == answered \cup {down[n].handle : n \in DOMAIN down}

(* When serve_nbd returns, every request that the kernel sent before the   *)
(* disconnect has its reply: a signal cuts nothing off ("gracefully        *)
(* disconnect", buse.cpp).                                                 *)
AnsweredBeforeEnd ==
  parent \in {"close", "wait", "returned"} => 1 .. sent \subseteq Replied

(* A signal that comes while the device is connected ends the server,      *)
(* whatever an earlier signal has failed to do, unless a short read or a   *)
(* failing mkfs or mount ends the process first (disconnect_nbd,           *)
(* serve_nbd, MKFSAndMount).                                               *)
SignalEndsServer ==
  wanted ~> \/ parent = "returned"
            \/ short
            \/ parent = "killed" /\ mkfs = "failed"

(* The constructor of NBDProxy returns, and the server either installs its *)
(* handlers or buse_main refuses the device, unless the process ends       *)
(* before: main waits for the connection of a thread that connects once    *)
(* and ignores a refusal (TCPListen, TCPAccept, TCPConnect, buse_main).    *)
ServerStarts ==
  <>(~Running \/ (main = "run" /\ (handlers \/ parent = "refused")))
=============================================================================
