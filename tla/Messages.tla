------------------------------ MODULE Messages ------------------------------
(***************************************************************************)
(* The wire format (message.cpp) and the framing around it: who sends how  *)
(* many bytes (NBDRead, NBDWrite, MinionProxy, MasterProxy) and who takes  *)
(* how many (GetArgsKey of NBDProxy, MasterProxy and ResponseProxy, after  *)
(* a MSG_PEEK at key and size).  No length is on the wire: both sides      *)
(* compute it.                                                             *)
(*                                                                         *)
(* A byte is symbolic: <<f, v, i>> is byte i of field f with value v.      *)
(***************************************************************************)
EXTENDS Integers, Sequences, FiniteSets

CONSTANTS Sizes,        \* lengths of a request
          Uids, Volume, \* uids and offsets of messages
          Payloads,     \* contents of a payload
          Garbage,      \* what new char[] holds before it is filled
          MaxMessages   \* bound: messages of one behaviour

ASSUME MessagesAssumption ==
  Sizes \subseteq Nat \ {0} /\ MaxMessages \in Nat \ {0}

StreamKeys   == {"NBD_READ_MSG", "NBD_WRITE_MSG"}                       \* TCP
DatagramKeys == {"READ_MSG_KEY", "WRITE_MSG_KEY",
                 "READ_MINION_MSG_KEY", "WRITE_MINION_MSG_KEY"}         \* UDP

(* The keys whose message carries size bytes of data: in the others size   *)
(* is what the reader wants to have.                                       *)
WithData == {"NBD_WRITE_MSG", "WRITE_MSG_KEY", "READ_MINION_MSG_KEY"}

(* The keys whose message ends with a checksum of one byte.                *)
Checked == {"READ_MSG_KEY", "WRITE_MSG_KEY"}

(* The fields a message has, which are what a receiver hands on            *)
(* (SupplyArgs, GetUID, GetIsSuccess).                                     *)
Fields(key) ==
  {"key", "size", "uid"}
    \cup {IF key \in {"READ_MINION_MSG_KEY", "WRITE_MINION_MSG_KEY"} THEN "success" ELSE "offset"}
    \cup {f \in {"data"} : key \in WithData}

(* Bytes of a field; a uid is counter, timestamp, pid and ip.              *)
Width(f, size) ==
  CASE f \in {"key", "size"} -> 4
    [] f = "uid"             -> 4 + 8 + 4 + 8
    [] f = "offset"          -> 8
    [] f = "success"         -> 1
    [] f = "data"            -> size

(* The message the constructors build.  A MinionWriteMsg has size 0, and   *)
(* the commands of a minion always report success.                         *)
Message(key, size, uid, offset, data) ==
  [f \in Fields(key) |->
     CASE f = "key"     -> key
       [] f = "size"    -> IF key = "WRITE_MINION_MSG_KEY" THEN 0 ELSE size
       [] f = "uid"     -> uid
       [] f = "offset"  -> offset
       [] f = "data"    -> data
       [] f = "success" -> TRUE]

-----------------------------------------------------------------------------
Header == Width("key", 0) + Width("size", 0) + Width("uid", 0)

(* GetBufferSize of a message of that size; the data of MinionReadMsg is   *)
(* not counted.                                                            *)
GetBufferSize(key, size) ==
  Header + CASE key = "NBD_READ_MSG"  -> 8
             [] key = "NBD_WRITE_MSG" -> 8 + size
             [] key = "READ_MSG_KEY"  -> 8 + 1
             [] key = "WRITE_MSG_KEY" -> 8 + size + 1
             [] OTHER                 -> 1

Encode(f, v, w) == [i \in 1 .. w |-> <<f, v, i>>]

(* The value of the w bytes behind the first s; bytes that were not        *)
(* received, or belong to another field, are garbage.                      *)
Decode(f, buffer, s, w) ==
  IF /\ s + w <= Len(buffer)
     /\ \A i \in 1 .. w : buffer[s + i] = <<f, buffer[s + 1][2], i>>
  THEN buffer[s + 1][2] ELSE Garbage

(* ToBuffer: that of AMessage, and what the class writes behind it.        *)
Field(m, f) == Encode(f, m[f], Width(f, m.size))

HeaderToBuffer(m) == Field(m, "key") \o Field(m, "size") \o Field(m, "uid")

FieldsToBuffer(m) ==
  HeaderToBuffer(m) \o
  CASE m.key \in {"NBD_READ_MSG", "READ_MSG_KEY"}   -> Field(m, "offset")
    [] m.key \in {"NBD_WRITE_MSG", "WRITE_MSG_KEY"} -> Field(m, "offset") \o Field(m, "data")
    [] m.key = "READ_MINION_MSG_KEY"                -> Field(m, "success") \o Field(m, "data")
    [] m.key = "WRITE_MINION_MSG_KEY"               -> Field(m, "success")

(* The bytes combined by ^: a byte that occurs twice cancels out.          *)
CalculateChecksum(bytes) ==
  LET At(x) == {i \in DOMAIN bytes : bytes[i] = x}
  IN  {x \in {bytes[i] : i \in DOMAIN bytes} : Cardinality(At(x)) % 2 = 1}

ToBuffer(m) ==
  LET bytes == FieldsToBuffer(m) IN
  IF m.key \in Checked
  THEN Append(bytes, <<"checksum", CalculateChecksum(bytes), 1>>) ELSE bytes

(* Where FromBuffer looks for a field: how far it has moved its pointer.   *)
Skipped(key, f) ==
  CASE f = "key"                   -> 0
    [] f = "size"                  -> Width("key", 0)
    [] f = "uid"                   -> Width("key", 0) + Width("size", 0)
    [] f \in {"offset", "success"} -> Header
    [] f = "data"                  ->
         Header + Width(IF key = "READ_MINION_MSG_KEY" THEN "success" ELSE "offset", 0)

(* Mutant of FromBuffer: the uid is not skipped.                           *)
FromBufferNoUid(key, size, buffer) ==
  [f \in Fields(key) |->
     Decode(f, buffer, IF Skipped(key, f) < Header THEN Skipped(key, f)
                       ELSE Skipped(key, f) - Width("uid", 0), Width(f, size))]

(* FromBuffer: the fields from where the class expects them.               *)
FromBuffer(key, size, buffer) ==
  [f \in Fields(key) |-> Decode(f, buffer, Skipped(key, f), Width(f, size))]

(* What the checksum is computed of on either side: length in FromBuffer.  *)
Covered(key, size) ==
  Header + Width("offset", 0) + (IF key \in WithData THEN size ELSE 0)

(* FromBuffer, the check at its end: if it fails, NotEqualToCheck throws   *)
(* (in a build without NDEBUG, which is the default one).                  *)
ChecksumOK(key, size, buffer) ==
  key \in Checked =>
    Decode("checksum", buffer, Covered(key, size), 1)
      = CalculateChecksum(SubSeq(buffer, 1, Covered(key, size)))

(* Bytes handed to Send: MasterProxy::ReadResponse adds the data.          *)
SendSize(m) == GetBufferSize(m.key, m.size)
                 + (IF m.key = "READ_MINION_MSG_KEY" THEN m.size ELSE 0)

(* Bytes asked for in Recive: a message fresh from the factory has size 0, *)
(* the peeked size is added where data follows.                            *)
ReciveSize(key, size) ==
  GetBufferSize(key, 0) + (IF key \in WithData THEN size ELSE 0)

-----------------------------------------------------------------------------
VARIABLES
  stream,     \* TCP: bytes sent by the NBD thread and not yet taken
  arrived,    \* TCP: how many of them recv can return
  datagrams,  \* UDP: datagrams queued at a socket
  sent,       \* ghost: messages sent, per protocol
  thrown,     \* has FromBuffer thrown?  Nobody catches it
  got,        \* ghost: what FromBuffer made of the messages
  short       \* ghost: has recv returned less than was asked for?

vars == <<stream, arrived, datagrams, sent, thrown, got, short>>

Init ==
  /\ stream = <<>> /\ arrived = 0 /\ datagrams = <<>>
  /\ sent = [p \in {"tcp", "udp"} |-> <<>>]
  /\ got = [p \in {"tcp", "udp"} |-> <<>>]
  /\ thrown = FALSE /\ short = FALSE

MoreMessages == Len(sent["tcp"]) + Len(sent["udp"]) < MaxMessages

(* Mutant of SendTCP: one byte too many.                                   *)
SendTCPOneMore(m) ==
  /\ MoreMessages /\ m.key \in StreamKeys /\ Len(sent["tcp"]) = Len(got["tcp"])
  /\ stream' = stream \o Append(SubSeq(ToBuffer(m), 1, SendSize(m)), <<"end", 0, 1>>)
  /\ sent' = [sent EXCEPT !["tcp"] = Append(@, m)]
  /\ UNCHANGED <<arrived, datagrams, thrown, got, short>>

(* NBDRead, NBDWrite: the NBD thread sends when it has the reply to its    *)
(* last message.                                                           *)
SendTCP(m) ==
  /\ MoreMessages /\ m.key \in StreamKeys /\ Len(sent["tcp"]) = Len(got["tcp"])
  /\ stream' = stream \o SubSeq(ToBuffer(m), 1, SendSize(m))
  /\ sent' = [sent EXCEPT !["tcp"] = Append(@, m)]
  /\ UNCHANGED <<arrived, datagrams, thrown, got, short>>

(* ReadRequest, WriteRequest, ReadResponse, WriteResponse.                 *)
SendUDP(m) ==
  /\ MoreMessages /\ m.key \in DatagramKeys
  /\ datagrams' = Append(datagrams, SubSeq(ToBuffer(m), 1, SendSize(m)))
  /\ sent' = [sent EXCEPT !["udp"] = Append(@, m)]
  /\ UNCHANGED <<stream, arrived, thrown, got, short>>

Peeked == Width("key", 0) + Width("size", 0)

(* TCP delivers bytes in pieces.  Key and size are taken to arrive         *)
(* together.                                                               *)
Segment(n) ==
  /\ n \in (arrived + 1) .. Len(stream) /\ n >= Peeked
  /\ arrived' = n
  /\ UNCHANGED <<stream, datagrams, sent, thrown, got, short>>

(* GetArgsKey: peek, take at most ReciveSize bytes of what is there, once. *)
Key(buffer)  == Decode("key", buffer, 0, Width("key", 0))
Size(buffer) == Decode("size", buffer, Width("key", 0), Width("size", 0))

Taken(buffer) ==
  SubSeq(buffer, 1, IF ReciveSize(Key(buffer), Size(buffer)) < Len(buffer)
                    THEN ReciveSize(Key(buffer), Size(buffer)) ELSE Len(buffer))

Received(buffer) == FromBuffer(Key(buffer), Size(buffer), Taken(buffer))

(* NBDProxy::GetArgsKey: what is not taken stays in the stream.  A key     *)
(* that no handler knows ends the behaviour.                               *)
ReciveTCP ==
  LET buffer == SubSeq(stream, 1, arrived) IN
  /\ arrived > 0 /\ Key(buffer) \in StreamKeys
  /\ got' = [got EXCEPT !["tcp"] = Append(@, Received(buffer))]
  /\ stream' = SubSeq(stream, Len(Taken(buffer)) + 1, Len(stream))
  /\ arrived' = arrived - Len(Taken(buffer))
  /\ short' = (short \/ Len(Taken(buffer)) < ReciveSize(Key(buffer), Size(buffer)))
  /\ UNCHANGED <<datagrams, sent, thrown>>

(* MasterProxy::GetArgsKey, ResponseProxy::GetArgsKey: what is not taken   *)
(* of a datagram is lost.  A minion whose FromBuffer throws ends there.    *)
ReciveUDP ==
  LET buffer == Head(datagrams) IN
  /\ ~thrown /\ datagrams # <<>>
  /\ datagrams' = Tail(datagrams)
  /\ thrown' = ~ChecksumOK(Key(buffer), Size(buffer), Taken(buffer))
  /\ got' = [got EXCEPT !["udp"] = IF thrown' THEN @ ELSE Append(@, Received(buffer))]
  /\ UNCHANGED <<stream, arrived, sent, short>>

MaxStream == MaxMessages * (Header + 8 + CHOOSE n \in Sizes : \A x \in Sizes : x <= n)

Next ==
  \/ \E key \in StreamKeys \cup DatagramKeys, size \in Sizes, uid \in Uids,
        offset \in Volume, data \in Payloads :
       LET m == Message(key, size, uid, offset, data) IN SendTCP(m) \/ SendUDP(m)
  \/ \E n \in 1 .. MaxStream : Segment(n)
  \/ ReciveTCP \/ ReciveUDP

Spec == Init /\ [][Next]_vars

-----------------------------------------------------------------------------
(* The arguments that were sent.                                           *)
Sent(m) == [f \in Fields(m.key) |-> m[f]]

(* The sizes that sender and receiver compute agree: when every message    *)
(* that was sent over TCP has been handled, and recv never returned only a *)
(* part of one, nothing is left in the stream that the next GetArgsKey     *)
(* would take for a header.                                                *)
InFrame == Len(got["tcp"]) = Len(sent["tcp"]) /\ ~short => stream = <<>>

(* What GetArgsKey hands on of a message, over TCP or UDP, is what was     *)
(* sent: key, size, uid, offset, success and data.  It fails only after    *)
(* TCPSocket::Recive, which calls recv once, returned a part of a message. *)
(* And both sides compute the checksum of the same bytes: FromBuffer never *)
(* throws for a datagram that ToBuffer wrote, which would end the minion.  *)
RoundTrip ==
  /\ ~thrown
  /\ \A p \in {"tcp", "udp"} : p = "udp" \/ ~short =>
       \A i \in 1 .. Len(got[p]) : got[p][i] = Sent(sent[p][i])
=============================================================================
