--------------------------- MODULE MessagesProofs ---------------------------
(***************************************************************************)
(* The wire format for any sizes, uids, offsets and payloads: every field  *)
(* lies where FromBuffer looks for it, both sides compute the length that  *)
(* ToBuffer writes, and so the stream stays in frame and what is received  *)
(* is what was sent.  Of the checksum nothing is used but that it is       *)
(* computed of the same bytes on both sides.                               *)
(***************************************************************************)
EXTENDS Messages, SequenceTheorems, TLAPS

Keys == StreamKeys \cup DatagramKeys

(* The messages that are sent.                                             *)
AllMessages ==
  UNION {{Message(key, size, uid, offset, data) :
            size \in Sizes, uid \in Uids, offset \in Volume, data \in Payloads} : key \in Keys}

-----------------------------------------------------------------------------
(* Buffers                                                                 *)

(* The bytes of m.                                                         *)
ChecksumOf(m) == <<"checksum", CalculateChecksum(FieldsToBuffer(m)), 1>>

Bytes(m) == {<<f, m[f], i>> : f \in Fields(m.key), i \in Nat} \cup {ChecksumOf(m)}

(* In buffer b the field f of m follows the first s bytes.                 *)
Holds(m, b, f, s) ==
  /\ s + Width(f, m.size) <= Len(b)
  /\ \A i \in 1 .. Width(f, m.size) : b[s + i] = <<f, m[f], i>>

(* What the lemmas need of a message.                                      *)
IsMessage(m) ==
  /\ m.key \in Keys /\ m.size \in Nat
  /\ m.key \in WithData => m.size > 0
  /\ DOMAIN m = Fields(m.key)

LEMMA MessageFacts ==
  ASSUME NEW m \in AllMessages
  PROVE  IsMessage(m)
<1>1. PICK key \in Keys, size \in Sizes, uid \in Uids, offset \in Volume, data \in Payloads :
        m = Message(key, size, uid, offset, data)
  BY DEF AllMessages
<1>2. "key" \in Fields(key) /\ "size" \in Fields(key)
  BY DEF Fields
<1>3. m.key = key /\ m.size = (IF key = "WRITE_MINION_MSG_KEY" THEN 0 ELSE size)
  BY <1>1, <1>2 DEF Message
<1>4. size \in Nat /\ size > 0
  BY MessagesAssumption
<1>5. DOMAIN m = Fields(key)
  BY <1>1 DEF Message
<1> QED BY <1>1, <1>3, <1>4, <1>5 DEF IsMessage, WithData

LEMMA WidthNat ==
  ASSUME NEW f \in {"key", "size", "uid", "offset", "success", "data"}, NEW n \in Nat
  PROVE  Width(f, n) \in Nat
BY DEF Width

(* A field, and a field behind another buffer.                             *)
LEMMA OneField ==
  ASSUME NEW m, IsMessage(m), NEW f \in Fields(m.key)
  PROVE  /\ Field(m, f) \in Seq(Bytes(m))
         /\ Len(Field(m, f)) = Width(f, m.size)
         /\ Holds(m, Field(m, f), f, 0)
<1>1. Width(f, m.size) \in Nat
  BY WidthNat DEF IsMessage, Fields
<1> DEFINE w == Width(f, m.size)
<1>2. Field(m, f) = [i \in 1 .. w |-> <<f, m[f], i>>]
  BY DEF Field, Encode
<1>3. \A i \in 1 .. w : <<f, m[f], i>> \in Bytes(m)
  BY <1>1 DEF Bytes
<1> HIDE DEF w
<1>4. Field(m, f) \in Seq(Bytes(m)) /\ Len(Field(m, f)) = w
  BY <1>1, <1>2, <1>3 DEF w
<1>5. \A i \in 1 .. w : Field(m, f)[0 + i] = <<f, m[f], i>>
  BY <1>1, <1>2 DEF w
<1> QED BY <1>1, <1>4, <1>5 DEF w, Holds

(* Concatenation keeps the fields of the first buffer where they are and   *)
(* moves those of the second one.                                          *)
LEMMA Joined ==
  ASSUME NEW m, IsMessage(m), NEW a \in Seq(Bytes(m)), NEW b \in Seq(Bytes(m))
  PROVE  /\ a \o b \in Seq(Bytes(m)) /\ Len(a \o b) = Len(a) + Len(b)
         /\ \A f \in Fields(m.key), s \in Nat : Holds(m, a, f, s) => Holds(m, a \o b, f, s)
         /\ \A f \in Fields(m.key), s \in Nat : Holds(m, b, f, s) => Holds(m, a \o b, f, Len(a) + s)
<1> DEFINE c == a \o b
<1>1. /\ c \in Seq(Bytes(m)) /\ Len(c) = Len(a) + Len(b) /\ Len(a) \in Nat /\ Len(b) \in Nat
      /\ \A i \in 1 .. Len(a) : c[i] = a[i]
      /\ \A i \in 1 .. Len(b) : c[Len(a) + i] = b[i]
  BY ConcatProperties, LenProperties
<1> HIDE DEF c
<1>2. ASSUME NEW f \in Fields(m.key), NEW s \in Nat, Holds(m, a, f, s) PROVE Holds(m, c, f, s)
  <2>1. Width(f, m.size) \in Nat
    BY WidthNat DEF IsMessage, Fields
  <2>2. \A i \in 1 .. Width(f, m.size) : s + i \in 1 .. Len(a)
    BY <1>1, <1>2, <2>1 DEF Holds
  <2>3. s + Width(f, m.size) <= Len(c)
    BY <1>1, <1>2, <2>1 DEF Holds
  <2>4. ASSUME NEW i \in 1 .. Width(f, m.size) PROVE c[s + i] = <<f, m[f], i>>
    BY <1>1, <1>2, <2>2 DEF Holds
  <2> QED BY <2>3, <2>4 DEF Holds
<1>3. ASSUME NEW f \in Fields(m.key), NEW s \in Nat, Holds(m, b, f, s)
      PROVE  Holds(m, c, f, Len(a) + s)
  <2>1. Width(f, m.size) \in Nat
    BY WidthNat DEF IsMessage, Fields
  <2>2. \A i \in 1 .. Width(f, m.size) : s + i \in 1 .. Len(b) /\ (Len(a) + s) + i = Len(a) + (s + i)
    BY <1>1, <1>3, <2>1 DEF Holds
  <2>3. ASSUME NEW i \in 1 .. Width(f, m.size) PROVE c[(Len(a) + s) + i] = <<f, m[f], i>>
    <3>1. c[Len(a) + (s + i)] = b[s + i]
      BY <1>1, <2>2
    <3>2. b[s + i] = <<f, m[f], i>>
      BY <1>3 DEF Holds
    <3> QED BY <2>2, <3>1, <3>2
  <2>4. (Len(a) + s) + Width(f, m.size) <= Len(c)
    BY <1>1, <1>3, <2>1 DEF Holds
  <2> QED BY <2>3, <2>4 DEF Holds
<1> QED BY <1>1, <1>2, <1>3 DEF c
(* c is h with the field f of m behind it.                                 *)
Longer(m, h, f, c) ==
  /\ c \in Seq(Bytes(m)) /\ Len(c) = Len(h) + Width(f, m.size)
  /\ Holds(m, c, f, Len(h))
  /\ \A g \in Fields(m.key), s \in Nat : Holds(m, h, g, s) => Holds(m, c, g, s)

LEMMA Associative ==
  ASSUME NEW S, NEW a \in Seq(S), NEW b \in Seq(S), NEW c \in Seq(S)
  PROVE  a \o (b \o c) = (a \o b) \o c
BY ConcatAssociative

LEMMA Behind ==
  ASSUME NEW m, IsMessage(m), NEW h \in Seq(Bytes(m)), NEW f \in Fields(m.key)
  PROVE  Longer(m, h, f, h \o Field(m, f))
<1>1. Field(m, f) \in Seq(Bytes(m)) /\ Len(Field(m, f)) = Width(f, m.size)
      /\ Holds(m, Field(m, f), f, 0) /\ Len(h) \in Nat
  BY OneField, LenProperties
<1>2. Holds(m, h \o Field(m, f), f, Len(h) + 0)
  BY <1>1, Joined
<1>3. Holds(m, h \o Field(m, f), f, Len(h))
  BY <1>1, <1>2
<1> QED BY <1>1, <1>3, Joined DEF Longer

(* ToBuffer of AMessage, for every class.                                  *)
LEMMA HeaderBuffer ==
  ASSUME NEW m, IsMessage(m)
  PROVE  /\ HeaderToBuffer(m) \in Seq(Bytes(m)) /\ Len(HeaderToBuffer(m)) = Header /\ Header = 32
         /\ Holds(m, HeaderToBuffer(m), "key", 0)
         /\ Holds(m, HeaderToBuffer(m), "size", 4)
         /\ Holds(m, HeaderToBuffer(m), "uid", 8)
<1> DEFINE k == Field(m, "key")
           kz == k \o Field(m, "size")
           kzu == kz \o Field(m, "uid")
<1>1. "key" \in Fields(m.key) /\ "size" \in Fields(m.key) /\ "uid" \in Fields(m.key)
  BY DEF Fields
<1>2. /\ Width("key", m.size) = 4 /\ Width("size", m.size) = 4 /\ Width("uid", m.size) = 24
      /\ Header = 32
  BY DEF Header, Width
<1>3. HeaderToBuffer(m) = kzu
  BY DEF HeaderToBuffer
<1>4. k \in Seq(Bytes(m)) /\ Len(k) = 4 /\ Holds(m, k, "key", 0)
  BY <1>1, <1>2, OneField
<1> HIDE DEF k
<1>5. /\ kz \in Seq(Bytes(m)) /\ Len(kz) = 4 + 4 /\ Holds(m, kz, "size", 4)
      /\ Holds(m, kz, "key", 0)
  <2>1. Longer(m, k, "size", kz)
    BY <1>1, <1>4, Behind
  <2> QED BY <1>1, <1>2, <1>4, <2>1 DEF Longer
<1> HIDE DEF kz
<1>6. /\ kzu \in Seq(Bytes(m)) /\ Len(kzu) = 8 + 24 /\ Holds(m, kzu, "uid", 8)
      /\ Holds(m, kzu, "key", 0) /\ Holds(m, kzu, "size", 4)
  <2>1. Longer(m, kz, "uid", kzu)
    BY <1>1, <1>5, Behind
  <2> QED BY <1>1, <1>2, <1>5, <2>1 DEF Longer
<1> QED BY <1>2, <1>3, <1>6

(* The buffer a class writes is one that holds every field where           *)
(* FromBuffer looks for it, and its length is what the sender hands to     *)
(* Send and the receiver to Recive.                                        *)
IsBufferOf(b, m) ==
  /\ b \in Seq(Bytes(m))
  /\ Len(b) = SendSize(m)
  /\ Len(b) = ReciveSize(m.key, m.size)
  /\ \A f \in Fields(m.key) : Holds(m, b, f, Skipped(m.key, f))

(* The same of the bytes before the checksum, if there is one.             *)
HoldsFields(b, m) ==
  /\ b \in Seq(Bytes(m))
  /\ Len(b) + (IF m.key \in Checked THEN 1 ELSE 0) = SendSize(m)
  /\ SendSize(m) = ReciveSize(m.key, m.size)
  /\ m.key \in Checked => Len(b) = Covered(m.key, m.size)
  /\ \A f \in Fields(m.key) : Holds(m, b, f, Skipped(m.key, f))

LEMMA FieldLayout ==
  ASSUME NEW m, IsMessage(m)
  PROVE  HoldsFields(FieldsToBuffer(m), m)
<1> DEFINE h == HeaderToBuffer(m)
           o == h \o Field(m, "offset")
           s == h \o Field(m, "success")
<1>1. /\ h \in Seq(Bytes(m)) /\ Len(h) = 32 /\ Header = 32
      /\ Holds(m, h, "key", 0) /\ Holds(m, h, "size", 4) /\ Holds(m, h, "uid", 8)
      /\ "key" \in Fields(m.key) /\ "size" \in Fields(m.key) /\ "uid" \in Fields(m.key)
      /\ m.size \in Nat
  BY HeaderBuffer DEF IsMessage, Fields
<1>2. \A n \in Nat : /\ Width("key", n) = 4 /\ Width("size", n) = 4 /\ Width("uid", n) = 24
                     /\ Width("offset", n) = 8 /\ Width("success", n) = 1
                     /\ Width("data", n) = n
  BY DEF Width
<1>3. /\ \A key : /\ Skipped(key, "key") = 0 /\ Skipped(key, "size") = 4 /\ Skipped(key, "uid") = 8
                  /\ Skipped(key, "offset") = 32 /\ Skipped(key, "success") = 32
                  /\ key # "READ_MINION_MSG_KEY" => Skipped(key, "data") = 40
      /\ Skipped("READ_MINION_MSG_KEY", "data") = 33
  BY <1>1, <1>2 DEF Skipped
<1> HIDE DEF h
<1>4. ASSUME "offset" \in Fields(m.key)
      PROVE  /\ o \in Seq(Bytes(m)) /\ Len(o) = 40 /\ Holds(m, o, "offset", 32)
             /\ Holds(m, o, "key", 0) /\ Holds(m, o, "size", 4) /\ Holds(m, o, "uid", 8)
  <2>1. Longer(m, h, "offset", o)
    BY <1>1, <1>4, Behind
  <2> HIDE DEF o
  <2> QED BY <1>1, <1>2, <2>1 DEF Longer
<1>5. ASSUME "success" \in Fields(m.key)
      PROVE  /\ s \in Seq(Bytes(m)) /\ Len(s) = 33 /\ Holds(m, s, "success", 32)
             /\ Holds(m, s, "key", 0) /\ Holds(m, s, "size", 4) /\ Holds(m, s, "uid", 8)
  <2>1. Longer(m, h, "success", s)
    BY <1>1, <1>5, Behind
  <2> HIDE DEF s
  <2> QED BY <1>1, <1>2, <2>1 DEF Longer
<1>6. ASSUME NEW f \in Fields(m.key), NEW g \in Fields(m.key)
      PROVE  h \o (Field(m, f) \o Field(m, g)) = (h \o Field(m, f)) \o Field(m, g)
  <2>1. Field(m, f) \in Seq(Bytes(m)) /\ Field(m, g) \in Seq(Bytes(m))
    BY OneField
  <2>2. h \in Seq(Bytes(m))
    BY <1>1
  <2> QED BY <2>1, <2>2, Associative
<1> HIDE DEF o, s
<1>7. CASE m.key \in {"NBD_READ_MSG", "READ_MSG_KEY"}
  <2>1. Fields(m.key) = {"key", "size", "uid", "offset"}
    BY <1>7 DEF Fields, WithData
  <2>2. FieldsToBuffer(m) = o
    BY <1>7 DEF FieldsToBuffer, o, h
  <2>3. /\ 40 + (IF m.key \in Checked THEN 1 ELSE 0) = SendSize(m)
        /\ SendSize(m) = ReciveSize(m.key, m.size)
        /\ m.key \in Checked => Covered(m.key, m.size) = 40
    BY <1>1, <1>2, <1>7 DEF SendSize, ReciveSize, GetBufferSize, Covered, WithData, Checked
  <2> QED BY <1>3, <1>4, <2>1, <2>2, <2>3 DEF HoldsFields
<1>8. CASE m.key \in {"NBD_WRITE_MSG", "WRITE_MSG_KEY"}
  <2> DEFINE d == o \o Field(m, "data")
  <2>1. Fields(m.key) = {"key", "size", "uid", "offset", "data"}
    BY <1>8 DEF Fields, WithData
  <2>2. FieldsToBuffer(m) = d
    BY <1>6, <1>8, <2>1 DEF FieldsToBuffer, o, h
  <2>3. /\ (40 + m.size) + (IF m.key \in Checked THEN 1 ELSE 0) = SendSize(m)
        /\ SendSize(m) = ReciveSize(m.key, m.size)
        /\ m.key \in Checked => Covered(m.key, m.size) = 40 + m.size
    <3>1. m.size \in Nat /\ Width("offset", 0) = 8
      BY <1>2 DEF IsMessage
    <3> QED BY <1>1, <1>8, <3>1 DEF SendSize, ReciveSize, GetBufferSize, Covered, WithData, Checked
  <2>4. /\ d \in Seq(Bytes(m)) /\ Len(d) = 40 + m.size
        /\ \A f \in {"key", "size", "uid", "offset", "data"} : Holds(m, d, f, Skipped(m.key, f))
    <3>1. Longer(m, o, "data", d)
      BY <1>4, <2>1, Behind
    <3> HIDE DEF d
    <3>2. /\ Holds(m, d, "key", 0) /\ Holds(m, d, "size", 4) /\ Holds(m, d, "uid", 8)
          /\ Holds(m, d, "offset", 32)
      BY <1>4, <2>1, <3>1 DEF Longer
    <3>3. d \in Seq(Bytes(m)) /\ Len(d) = Len(o) + Width("data", m.size) /\ Holds(m, d, "data", Len(o))
      BY <3>1 DEF Longer
    <3>4. Len(o) = 40 /\ Width("data", m.size) = m.size
      BY <1>1, <1>2, <1>4, <2>1
    <3>5. Len(d) = 40 + m.size /\ Holds(m, d, "data", 40)
      BY <3>3, <3>4
    <3>6. Skipped(m.key, "data") = 40 /\ Skipped(m.key, "offset") = 32
      BY <1>3, <1>8
    <3>7. \A g \in {"key", "size", "uid", "offset", "data"} : Holds(m, d, g, Skipped(m.key, g))
      BY <1>3, <3>2, <3>5, <3>6
    <3> QED BY <3>3, <3>5, <3>7
  <2> HIDE DEF d
  <2> QED BY <2>1, <2>2, <2>3, <2>4 DEF HoldsFields
<1>9. CASE m.key = "READ_MINION_MSG_KEY"
  <2> DEFINE d == s \o Field(m, "data")
  <2>1. Fields(m.key) = {"key", "size", "uid", "success", "data"}
    BY <1>9 DEF Fields, WithData
  <2>2. FieldsToBuffer(m) = d
    BY <1>6, <1>9, <2>1 DEF FieldsToBuffer, s, h
  <2>3. /\ SendSize(m) = 33 + m.size /\ ReciveSize(m.key, m.size) = 33 + m.size
        /\ m.key \notin Checked /\ m.size \in Nat
    BY <1>1, <1>9 DEF SendSize, ReciveSize, GetBufferSize, WithData, Checked, IsMessage
  <2>4. /\ d \in Seq(Bytes(m)) /\ Len(d) = 33 + m.size
        /\ \A f \in {"key", "size", "uid", "success", "data"} : Holds(m, d, f, Skipped(m.key, f))
    <3>1. Longer(m, s, "data", d)
      BY <1>5, <2>1, Behind
    <3> HIDE DEF d
    <3>2. /\ Holds(m, d, "key", 0) /\ Holds(m, d, "size", 4) /\ Holds(m, d, "uid", 8)
          /\ Holds(m, d, "success", 32)
      BY <1>5, <2>1, <3>1 DEF Longer
    <3>3. d \in Seq(Bytes(m)) /\ Len(d) = Len(s) + Width("data", m.size) /\ Holds(m, d, "data", Len(s))
      BY <3>1 DEF Longer
    <3>4. Len(s) = 33 /\ Width("data", m.size) = m.size
      BY <1>1, <1>2, <1>5, <2>1
    <3>5. Len(d) = 33 + m.size /\ Holds(m, d, "data", 33)
      BY <3>3, <3>4
    <3>6. Skipped(m.key, "data") = 33 /\ Skipped(m.key, "success") = 32
      BY <1>3, <1>9
    <3>7. \A g \in {"key", "size", "uid", "success", "data"} : Holds(m, d, g, Skipped(m.key, g))
      BY <1>3, <3>2, <3>5, <3>6
    <3> QED BY <3>3, <3>5, <3>7
  <2> HIDE DEF d
  <2> QED BY <2>1, <2>2, <2>3, <2>4 DEF HoldsFields
<1>10. CASE m.key = "WRITE_MINION_MSG_KEY"
  <2>1. Fields(m.key) = {"key", "size", "uid", "success"}
    BY <1>10 DEF Fields, WithData
  <2>2. FieldsToBuffer(m) = s
    BY <1>10 DEF FieldsToBuffer, s, h
  <2>3. /\ SendSize(m) = 33 /\ ReciveSize(m.key, m.size) = 33
        /\ m.key \notin Checked
    BY <1>1, <1>10 DEF SendSize, ReciveSize, GetBufferSize, WithData, Checked
  <2> QED BY <1>3, <1>5, <2>1, <2>2, <2>3 DEF HoldsFields
<1> QED BY <1>7, <1>8, <1>9, <1>10 DEF IsMessage, Keys, StreamKeys, DatagramKeys

(* The whole buffer, with the checksum behind the fields.                  *)
LEMMA Layout ==
  ASSUME NEW m, IsMessage(m)
  PROVE  /\ IsBufferOf(ToBuffer(m), m)
         /\ m.key \in Checked =>
              /\ Covered(m.key, m.size) \in Nat
              /\ Len(ToBuffer(m)) = Covered(m.key, m.size) + 1
              /\ ToBuffer(m)[Covered(m.key, m.size) + 1] = ChecksumOf(m)
              /\ SubSeq(ToBuffer(m), 1, Covered(m.key, m.size)) = FieldsToBuffer(m)
<1> DEFINE b == FieldsToBuffer(m)
           x == ChecksumOf(m)
<1>1. HoldsFields(b, m)
  BY FieldLayout
<1>2. /\ b \in Seq(Bytes(m)) /\ Len(b) \in Nat /\ x \in Bytes(m)
      /\ \A f \in Fields(m.key) : Holds(m, b, f, Skipped(m.key, f))
  BY <1>1, LenProperties DEF HoldsFields, Bytes
<1>3. CASE m.key \notin Checked
  <2>1. ToBuffer(m) = b
    BY <1>3 DEF ToBuffer
  <2> HIDE DEF b
  <2> QED BY <1>1, <1>2, <1>3, <2>1 DEF HoldsFields, IsBufferOf
<1>4. CASE m.key \in Checked
  <2> DEFINE t == Append(b, x)
  <2>1. ToBuffer(m) = t
    BY <1>4 DEF ToBuffer, ChecksumOf
  <2>2. /\ Len(b) = Covered(m.key, m.size) /\ Len(b) + 1 = SendSize(m)
        /\ SendSize(m) = ReciveSize(m.key, m.size)
    BY <1>1, <1>4 DEF HoldsFields
  <2> HIDE DEF b, x
  <2>3. /\ t \in Seq(Bytes(m)) /\ Len(t) = Len(b) + 1 /\ t[Len(b) + 1] = x
        /\ \A i \in 1 .. Len(b) : t[i] = b[i]
    BY <1>2, AppendProperties
  <2> HIDE DEF t
  <2>4. ASSUME NEW f \in Fields(m.key) PROVE Holds(m, t, f, Skipped(m.key, f))
    <3>1. Width(f, m.size) \in Nat /\ Skipped(m.key, f) \in Nat
      BY WidthNat DEF IsMessage, Fields, Skipped, Header, Width
    <3>2. Holds(m, b, f, Skipped(m.key, f))
      BY <1>2
    <3>3. \A i \in 1 .. Width(f, m.size) : Skipped(m.key, f) + i \in 1 .. Len(b)
      BY <1>2, <3>1, <3>2 DEF Holds
    <3> QED BY <1>2, <2>3, <3>1, <3>2, <3>3 DEF Holds
  <2>5. SubSeq(t, 1, Len(b)) = b
    BY <1>2, <2>3
  <2> QED BY <1>2, <2>1, <2>2, <2>3, <2>4, <2>5 DEF IsBufferOf, b, x
<1> QED BY <1>3, <1>4

-----------------------------------------------------------------------------
(* Receivers                                                               *)

(* A field of which all bytes have arrived is decoded to its value.        *)
LEMMA DecodeField ==
  ASSUME NEW m, IsMessage(m), NEW b, NEW f \in Fields(m.key), NEW s \in Nat, Len(b) \in Nat,
         Holds(m, b, f, s), Width(f, m.size) > 0
  PROVE  Decode(f, b, s, Width(f, m.size)) = m[f]
<1>1. Width(f, m.size) \in Nat
  BY WidthNat DEF IsMessage, Fields
<1>2. b[s + 1] = <<f, m[f], 1>>
  BY <1>1 DEF Holds
<1>3. b[s + 1][2] = m[f]
  BY <1>2
<1> QED BY <1>1, <1>3 DEF Decode, Holds

(* GetArgsKey, once key and size have arrived: it asks for the length of   *)
(* the message, and of a whole one it hands on what was sent.              *)
LEMMA PeekAndTake ==
  ASSUME NEW m, IsMessage(m), NEW n \in 8 .. Len(ToBuffer(m))
  PROVE  LET b == SubSeq(ToBuffer(m), 1, n)
         IN  /\ Key(b) = m.key /\ Size(b) = m.size
             /\ Taken(b) = b /\ Len(b) = n
             /\ ReciveSize(Key(b), Size(b)) = Len(ToBuffer(m))
             /\ n = Len(ToBuffer(m)) => b = ToBuffer(m) /\ Received(b) = Sent(m)
             /\ n = Len(ToBuffer(m)) => ChecksumOK(Key(b), Size(b), Taken(b))
<1> DEFINE t == ToBuffer(m)
           b == SubSeq(t, 1, n)
<1>1. IsBufferOf(t, m)
  BY Layout
<1>2. t \in Seq(Bytes(m)) /\ Len(t) \in Nat /\ n \in Nat /\ n <= Len(t) /\ n >= 8
  BY <1>1, LenProperties DEF IsBufferOf
<1> HIDE DEF t
<1>3. /\ b \in Seq(Bytes(m)) /\ Len(b) = n
      /\ \A i \in 1 .. n : b[i] = t[i]
  BY <1>2
<1>4. n = Len(t) => b = t
  BY <1>2, <1>3
<1> HIDE DEF b
<1>5. /\ "key" \in Fields(m.key) /\ "size" \in Fields(m.key)
      /\ \A k \in Nat : Width("key", k) = 4 /\ Width("size", k) = 4
      /\ \A key : Skipped(key, "key") = 0 /\ Skipped(key, "size") = 4
      /\ m.size \in Nat
  BY DEF Fields, Skipped, Width, IsMessage
<1>6. Holds(m, t, "key", 0) /\ Holds(m, t, "size", 4)
  BY <1>1, <1>5 DEF IsBufferOf
<1>7. Holds(m, b, "key", 0) /\ Holds(m, b, "size", 4)
  <2>1. Width("key", m.size) = 4 /\ Width("size", m.size) = 4
    BY <1>5
  <2>2. \A i \in 1 .. 4 : b[0 + i] = t[0 + i] /\ b[4 + i] = t[4 + i]
    BY <1>2, <1>3
  <2>3. \A i \in 1 .. 4 : t[0 + i] = <<"key", m["key"], i>> /\ t[4 + i] = <<"size", m["size"], i>>
    BY <1>6, <2>1 DEF Holds
  <2> QED BY <1>2, <1>3, <2>1, <2>2, <2>3 DEF Holds
<1>8. Key(b) = m.key
  <2>1. /\ "key" \in Fields(m.key) /\ Len(b) \in Nat /\ 0 \in Nat
        /\ Width("key", m.size) > 0 /\ Width("key", m.size) = Width("key", 0)
    BY <1>2, <1>3, <1>5
  <2>2. Decode("key", b, 0, Width("key", m.size)) = m["key"]
    BY <1>7, <2>1, DecodeField
  <2> QED BY <2>1, <2>2 DEF Key
<1>9. Size(b) = m.size
  <2>1. /\ "size" \in Fields(m.key) /\ Len(b) \in Nat /\ 4 \in Nat
        /\ Width("size", m.size) > 0 /\ Width("size", m.size) = Width("size", 0)
    BY <1>2, <1>3, <1>5
  <2>2. Decode("size", b, 4, Width("size", m.size)) = m["size"]
    BY <1>7, <2>1, DecodeField
  <2>3. Width("key", 0) = 4
    BY <1>5
  <2> QED BY <2>1, <2>2, <2>3 DEF Size
<1>10. ReciveSize(Key(b), Size(b)) = Len(t)
  BY <1>1, <1>8, <1>9 DEF IsBufferOf
<1>11. Taken(b) = SubSeq(b, 1, Len(b))
  BY <1>2, <1>3, <1>10 DEF Taken
<1>12. Taken(b) = b
  BY <1>3, <1>11
<1>13. ASSUME n = Len(t) PROVE Received(b) = Sent(m)
  <2>1. Received(b) = [f \in Fields(m.key) |-> Decode(f, t, Skipped(m.key, f), Width(f, m.size))]
    BY <1>4, <1>8, <1>9, <1>12, <1>13 DEF Received, FromBuffer
  <2>2. ASSUME NEW f \in Fields(m.key)
        PROVE  Decode(f, t, Skipped(m.key, f), Width(f, m.size)) = m[f]
    <3>1. Holds(m, t, f, Skipped(m.key, f)) /\ f \in Fields(m.key)
      BY <1>1, <1>5 DEF IsBufferOf
    <3>2. Skipped(m.key, f) \in Nat
      BY DEF Fields, Skipped, Header, Width
    <3>3. Width(f, m.size) > 0
      BY DEF Fields, Width, IsMessage
    <3> QED BY <1>2, <3>1, <3>2, <3>3, DecodeField
  <2> QED BY <2>1, <2>2 DEF Sent
<1>14. ASSUME n = Len(t) PROVE ChecksumOK(Key(b), Size(b), Taken(b))
  <2> DEFINE c == Covered(m.key, m.size)
  <2> SUFFICES ASSUME m.key \in Checked
               PROVE  Decode("checksum", t, c, 1) = CalculateChecksum(SubSeq(t, 1, c))
    BY <1>4, <1>8, <1>9, <1>12, <1>14 DEF ChecksumOK
  <2>1. /\ c \in Nat /\ Len(t) = c + 1 /\ t[c + 1] = ChecksumOf(m)
        /\ SubSeq(t, 1, c) = FieldsToBuffer(m)
    BY Layout DEF t
  <2> HIDE DEF c
  <2>2. t[c + 1] = <<"checksum", CalculateChecksum(SubSeq(t, 1, c)), 1>>
    BY <2>1 DEF ChecksumOf
  <2>3. t[c + 1][2] = CalculateChecksum(SubSeq(t, 1, c))
    BY <2>2
  <2>4. \A i \in 1 .. 1 : t[c + i] = <<"checksum", t[c + 1][2], i>>
    BY <2>2, <2>3
  <2> QED BY <2>1, <2>3, <2>4 DEF Decode
<1> QED BY <1>3, <1>4, <1>8, <1>9, <1>10, <1>12, <1>13, <1>14 DEF t, b
-----------------------------------------------------------------------------
(* The inductive invariant                                                 *)

Sents   == {Sent(m) : m \in AllMessages}
Buffers == {ToBuffer(m) : m \in AllMessages}

Protocols == {"tcp", "udp"}

Logs == sent \in [Protocols -> Seq(AllMessages)] /\ DOMAIN got = Protocols

(* The datagrams in the queue are those of the messages not yet received.  *)
Queued ==
  /\ got["udp"] \in Seq(Sents) /\ datagrams \in Seq(Buffers)
  /\ Len(sent["udp"]) = Len(got["udp"]) + Len(datagrams)
  /\ \A i \in 1 .. Len(got["udp"]) : got["udp"][i] = Sent(sent["udp"][i])
  /\ \A i \in 1 .. Len(datagrams) : datagrams[i] = ToBuffer(sent["udp"][Len(got["udp"]) + i])

(* The stream holds nothing, or exactly the one message that was sent and  *)
(* not received, of which key and size arrive first.                       *)
Empty  == Len(got["tcp"]) = Len(sent["tcp"]) /\ stream = <<>> /\ arrived = 0
Filled == /\ Len(sent["tcp"]) = Len(got["tcp"]) + 1
          /\ stream = ToBuffer(sent["tcp"][Len(sent["tcp"])])
          /\ arrived \in {0} \cup 8 .. Len(stream)

Streamed ==
  ~short =>
    /\ got["tcp"] \in Seq(Sents)
    /\ \A i \in 1 .. Len(got["tcp"]) : got["tcp"][i] = Sent(sent["tcp"][i])
    /\ Empty \/ Filled

Inv == Logs /\ Queued /\ Streamed /\ thrown = FALSE

LEMMA Whole ==
  ASSUME NEW m \in AllMessages
  PROVE  /\ IsMessage(m)
         /\ SubSeq(ToBuffer(m), 1, SendSize(m)) = ToBuffer(m)
         /\ Len(ToBuffer(m)) \in Nat /\ Len(ToBuffer(m)) >= 8
         /\ ToBuffer(m) \in Seq(Bytes(m))
<1>1. IsMessage(m) /\ IsBufferOf(ToBuffer(m), m)
  BY MessageFacts, Layout
<1> DEFINE t == ToBuffer(m)
<1>2. t \in Seq(Bytes(m)) /\ Len(t) = SendSize(m) /\ Len(t) \in Nat
  BY <1>1, LenProperties DEF IsBufferOf
<1>3. "size" \in Fields(m.key) /\ Skipped(m.key, "size") = 4 /\ Width("size", m.size) = 4
  BY DEF Fields, Skipped, Width
<1>4. Holds(m, t, "size", 4)
  BY <1>1, <1>3 DEF IsBufferOf
<1> HIDE DEF t
<1>5. Len(t) >= 8
  BY <1>2, <1>3, <1>4 DEF Holds
<1>6. SubSeq(t, 1, Len(t)) = t
  BY <1>2
<1> QED BY <1>1, <1>2, <1>5, <1>6 DEF t

(* GetArgsKey of a whole datagram.                                         *)
LEMMA Datagram ==
  ASSUME NEW m \in AllMessages
  PROVE  /\ Received(ToBuffer(m)) = Sent(m)
         /\ ChecksumOK(Key(ToBuffer(m)), Size(ToBuffer(m)), Taken(ToBuffer(m)))
<1>1. IsMessage(m) /\ Len(ToBuffer(m)) \in 8 .. Len(ToBuffer(m))
  BY Whole
<1> QED BY <1>1, PeekAndTake

LEMMA InitInv == Init => Inv
<1> SUFFICES ASSUME Init PROVE Inv
  OBVIOUS
<1>1. \A S : <<>> \in Seq(S) /\ Len(<<>>) = 0
  OBVIOUS
<1>2. /\ sent["tcp"] = <<>> /\ sent["udp"] = <<>> /\ got["tcp"] = <<>> /\ got["udp"] = <<>>
      /\ stream = <<>> /\ arrived = 0 /\ datagrams = <<>>
  BY DEF Init
<1>3. Logs
  BY <1>1 DEF Init, Logs, Protocols
<1>4. thrown = FALSE
  BY DEF Init
<1> QED BY <1>4, <1>1, <1>2, <1>3 DEF Inv, Queued, Streamed, Empty

LEMMA Appended ==
  ASSUME NEW S, NEW q \in Seq(S), NEW x \in S
  PROVE  /\ Append(q, x) \in Seq(S) /\ Len(Append(q, x)) = Len(q) + 1 /\ Len(q) \in Nat
         /\ Append(q, x)[Len(q) + 1] = x
         /\ \A i \in 1 .. Len(q) : Append(q, x)[i] = q[i]
BY AppendProperties, LenProperties

LEMMA SendTCPInv ==
  ASSUME Inv, NEW m \in AllMessages, SendTCP(m)
  PROVE  Inv'
<1>1. /\ Logs /\ Queued /\ Streamed /\ "tcp" \in Protocols /\ "udp" \in Protocols
      /\ Len(sent["tcp"]) = Len(got["tcp"])
      /\ stream' = stream \o ToBuffer(m)
      /\ sent' = [sent EXCEPT !["tcp"] = Append(sent["tcp"], m)]
      /\ UNCHANGED <<arrived, datagrams, thrown, got, short>>
  BY Whole DEF Inv, SendTCP, Protocols
<1>2. /\ sent["tcp"] \in Seq(AllMessages) /\ sent'["udp"] = sent["udp"]
      /\ sent'["tcp"] = Append(sent["tcp"], m) /\ Len(sent["tcp"]) \in Nat
  BY <1>1, LenProperties DEF Logs
<1>3. /\ sent'["tcp"] \in Seq(AllMessages) /\ Len(sent'["tcp"]) = Len(sent["tcp"]) + 1
      /\ sent'["tcp"][Len(sent["tcp"]) + 1] = m
      /\ \A i \in 1 .. Len(sent["tcp"]) : sent'["tcp"][i] = sent["tcp"][i]
  BY <1>2, Appended
<1>4. Logs'
  BY <1>1, <1>2, <1>3 DEF Logs
<1>5. Queued'
  BY <1>1, <1>2 DEF Queued
<1>6. Streamed'
  <2> SUFFICES ASSUME ~short'
               PROVE  /\ got'["tcp"] \in Seq(Sents)
                      /\ \A i \in 1 .. Len(got'["tcp"]) : got'["tcp"][i] = Sent(sent'["tcp"][i])
                      /\ Filled'
    BY DEF Streamed
  <2>1. /\ got["tcp"] \in Seq(Sents) /\ stream = <<>> /\ arrived = 0
        /\ \A i \in 1 .. Len(got["tcp"]) : got["tcp"][i] = Sent(sent["tcp"][i])
    BY <1>1, <1>2 DEF Streamed, Empty, Filled
  <2>2. stream' = ToBuffer(m)
    BY <1>1, <2>1, Whole
  <2>3. \A i \in 1 .. Len(got["tcp"]) : got["tcp"][i] = Sent(sent'["tcp"][i])
    BY <1>1, <1>3, <2>1
  <2>4. Len(sent'["tcp"]) = Len(got'["tcp"]) + 1 /\ sent'["tcp"][Len(sent'["tcp"])] = m
    BY <1>1, <1>3
  <2>5. Filled'
    BY <1>1, <2>1, <2>2, <2>4 DEF Filled
  <2> QED BY <1>1, <2>1, <2>3, <2>5
<1> QED BY <1>1, <1>4, <1>5, <1>6 DEF Inv

LEMMA SendUDPInv ==
  ASSUME Inv, NEW m \in AllMessages, SendUDP(m)
  PROVE  Inv'
<1>1. /\ Logs /\ Queued /\ Streamed /\ "tcp" \in Protocols /\ "udp" \in Protocols
      /\ datagrams' = Append(datagrams, ToBuffer(m))
      /\ sent' = [sent EXCEPT !["udp"] = Append(sent["udp"], m)]
      /\ UNCHANGED <<stream, arrived, thrown, got, short>>
  BY Whole DEF Inv, SendUDP, Protocols
<1>2. /\ sent["udp"] \in Seq(AllMessages) /\ sent'["tcp"] = sent["tcp"]
      /\ sent'["udp"] = Append(sent["udp"], m) /\ ToBuffer(m) \in Buffers
      /\ datagrams \in Seq(Buffers) /\ got["udp"] \in Seq(Sents)
  BY <1>1 DEF Logs, Queued, Buffers
<1> DEFINE n == Len(sent["udp"])
           g == Len(got["udp"])
           d == Len(datagrams)
<1>3. /\ sent'["udp"] \in Seq(AllMessages) /\ Len(sent'["udp"]) = n + 1 /\ n \in Nat
      /\ sent'["udp"][n + 1] = m
      /\ \A i \in 1 .. n : sent'["udp"][i] = sent["udp"][i]
  BY <1>2, Appended
<1>4. /\ datagrams' \in Seq(Buffers) /\ Len(datagrams') = d + 1 /\ d \in Nat
      /\ datagrams'[d + 1] = ToBuffer(m)
      /\ \A i \in 1 .. d : datagrams'[i] = datagrams[i]
  BY <1>1, <1>2, Appended
<1>5. /\ g \in Nat /\ n = g + d
      /\ \A i \in 1 .. g : got["udp"][i] = Sent(sent["udp"][i])
      /\ \A i \in 1 .. d : datagrams[i] = ToBuffer(sent["udp"][g + i])
  BY <1>1, <1>2, LenProperties DEF Queued
<1> HIDE DEF n, g, d
<1>6. Logs'
  BY <1>1, <1>2, <1>3 DEF Logs
<1>7. Streamed'
  BY <1>1, <1>2 DEF Streamed, Empty, Filled
<1>8. \A i \in 1 .. g : got["udp"][i] = Sent(sent'["udp"][i])
  BY <1>3, <1>4, <1>5
<1>9. ASSUME NEW i \in 1 .. (d + 1) PROVE datagrams'[i] = ToBuffer(sent'["udp"][g + i])
  <2>1. CASE i = d + 1
    <3>1. g + i = n + 1
      BY <1>4, <1>5, <2>1
    <3> QED BY <1>3, <1>4, <2>1, <3>1
  <2>2. CASE i # d + 1
    <3>1. i \in 1 .. d /\ g + i \in 1 .. n
      BY <1>3, <1>4, <1>5, <2>2
    <3> QED BY <1>3, <1>4, <1>5, <3>1
  <2> QED BY <2>1, <2>2
<1>10. Queued'
  <2>1. Len(got'["udp"]) = g /\ got' = got
    BY <1>1 DEF g
  <2>2. Len(sent'["udp"]) = g + Len(datagrams') /\ Len(datagrams') = d + 1
    BY <1>3, <1>4, <1>5
  <2> QED BY <1>2, <1>4, <1>8, <1>9, <2>1, <2>2 DEF Queued
<1> QED BY <1>1, <1>6, <1>7, <1>10 DEF Inv
LEMMA ReciveUDPInv ==
  ASSUME Inv, ReciveUDP
  PROVE  Inv'
<1> DEFINE g == Len(got["udp"])
           d == Len(datagrams)
           m == sent["udp"][g + 1]
<1>1. /\ Logs /\ Queued /\ Streamed /\ "tcp" \in Protocols /\ "udp" \in Protocols
      /\ datagrams # <<>> /\ datagrams' = Tail(datagrams)
      /\ UNCHANGED <<stream, arrived, sent, short>>
  BY DEF Inv, ReciveUDP, Protocols
<1>2. /\ sent["udp"] \in Seq(AllMessages) /\ got["udp"] \in Seq(Sents) /\ datagrams \in Seq(Buffers)
      /\ g \in Nat /\ d \in Nat /\ Len(sent["udp"]) = g + d
      /\ \A i \in 1 .. g : got["udp"][i] = Sent(sent["udp"][i])
      /\ \A i \in 1 .. d : datagrams[i] = ToBuffer(sent["udp"][g + i])
  BY <1>1, LenProperties DEF Logs, Queued
<1>3. /\ d > 0 /\ Head(datagrams) = datagrams[1] /\ Tail(datagrams) \in Seq(Buffers)
      /\ Len(Tail(datagrams)) = d - 1
      /\ \A i \in 1 .. (d - 1) : Tail(datagrams)[i] = datagrams[i + 1]
  BY <1>1, <1>2, HeadTailProperties
<1> HIDE DEF g, d
<1>4. m \in AllMessages /\ Head(datagrams) = ToBuffer(m)
  BY <1>2, <1>3
<1>5. Received(Head(datagrams)) = Sent(m) /\ Sent(m) \in Sents
  BY <1>4, Datagram DEF Sents
<1> DEFINE b == Head(datagrams)
           ok == ChecksumOK(Key(b), Size(b), Taken(b))
<1>5a. ok
  BY <1>4, Datagram
<1>5b. /\ thrown' = ~ok
       /\ got' = [got EXCEPT !["udp"] = IF thrown' THEN @ ELSE Append(@, Received(b))]
  BY DEF ReciveUDP
<1> HIDE DEF ok, b
<1>5c. thrown' = FALSE
  BY <1>5a, <1>5b, Zenon
<1>6. /\ got'["udp"] = Append(got["udp"], Sent(m)) /\ got'["tcp"] = got["tcp"]
      /\ DOMAIN got' = Protocols
  <2>1. got' = [got EXCEPT !["udp"] = Append(@, Received(b))]
    BY <1>5b, <1>5c
  <2> QED BY <1>1, <1>5, <2>1 DEF Logs, b
<1>7. /\ got'["udp"] \in Seq(Sents) /\ Len(got'["udp"]) = g + 1
      /\ got'["udp"][g + 1] = Sent(m)
      /\ \A i \in 1 .. g : got'["udp"][i] = got["udp"][i]
  BY <1>2, <1>5, <1>6, Appended DEF g
<1>8. Logs'
  BY <1>1, <1>6 DEF Logs
<1>9. Streamed'
  <2> SUFFICES ASSUME ~short'
               PROVE  /\ got'["tcp"] \in Seq(Sents)
                      /\ \A i \in 1 .. Len(got'["tcp"]) : got'["tcp"][i] = Sent(sent'["tcp"][i])
                      /\ Empty' \/ Filled'
    BY DEF Streamed
  <2> QED BY <1>1, <1>6 DEF Streamed, Empty, Filled
<1>10. \A i \in 1 .. (g + 1) : got'["udp"][i] = Sent(sent["udp"][i])
  <2> SUFFICES ASSUME NEW i \in 1 .. (g + 1) PROVE got'["udp"][i] = Sent(sent["udp"][i])
    OBVIOUS
  <2>1. i = g + 1 \/ i \in 1 .. g
    BY <1>2
  <2> QED BY <1>2, <1>7, <2>1
<1>11. \A i \in 1 .. (d - 1) : datagrams'[i] = ToBuffer(sent["udp"][(g + 1) + i])
  <2> SUFFICES ASSUME NEW i \in 1 .. (d - 1)
               PROVE  datagrams'[i] = ToBuffer(sent["udp"][(g + 1) + i])
    OBVIOUS
  <2>1. i + 1 \in 1 .. d /\ g + (i + 1) = (g + 1) + i
    BY <1>2
  <2> QED BY <1>1, <1>2, <1>3, <2>1
<1>12. Queued'
  <2>1. Len(datagrams') = d - 1 /\ Len(sent["udp"]) = (g + 1) + (d - 1)
    BY <1>1, <1>2, <1>3
  <2> QED BY <1>1, <1>3, <1>7, <1>10, <1>11, <2>1 DEF Queued
<1> QED BY <1>8, <1>9, <1>12, <1>5c DEF Inv

LEMMA SegmentInv ==
  ASSUME Inv, NEW n \in 1 .. MaxStream, Segment(n)
  PROVE  Inv'
<1>1. /\ Logs /\ Queued /\ Streamed /\ arrived' = n
      /\ UNCHANGED <<stream, datagrams, sent, thrown, got, short>>
      /\ n \in (arrived + 1) .. Len(stream) /\ n >= 8
  BY DEF Inv, Segment, Peeked, Width
<1>2. Logs' /\ Queued'
  BY <1>1 DEF Logs, Queued
<1>3. Streamed'
  <2> SUFFICES ASSUME ~short'
               PROVE  /\ got'["tcp"] \in Seq(Sents)
                      /\ \A i \in 1 .. Len(got'["tcp"]) : got'["tcp"][i] = Sent(sent'["tcp"][i])
                      /\ Filled'
    BY DEF Streamed
  <2>1. ~Empty
    BY <1>1 DEF Empty
  <2>2. Filled
    BY <1>1, <2>1 DEF Streamed
  <2>3. n \in 8 .. Len(stream)
    BY <1>1
  <2>4. Filled'
    BY <1>1, <2>2, <2>3 DEF Filled
  <2> QED BY <1>1, <2>4 DEF Streamed
<1> QED BY <1>1, <1>2, <1>3 DEF Inv

LEMMA ReciveTCPInv ==
  ASSUME Inv, ReciveTCP
  PROVE  Inv'
<1> DEFINE b == SubSeq(stream, 1, arrived)
           z == Len(sent["tcp"])
           m == sent["tcp"][z]
<1>1. /\ Logs /\ Queued /\ Streamed /\ "tcp" \in Protocols /\ "udp" \in Protocols
      /\ arrived > 0
      /\ got' = [got EXCEPT !["tcp"] = Append(got["tcp"], Received(b))]
      /\ stream' = SubSeq(stream, Len(Taken(b)) + 1, Len(stream))
      /\ arrived' = arrived - Len(Taken(b))
      /\ short' = (short \/ Len(Taken(b)) < ReciveSize(Key(b), Size(b)))
      /\ UNCHANGED <<datagrams, sent, thrown>>
  BY DEF Inv, ReciveTCP, Protocols
<1>2. /\ got'["udp"] = got["udp"] /\ DOMAIN got' = Protocols
      /\ got'["tcp"] = Append(got["tcp"], Received(b))
  BY <1>1 DEF Logs
<1>3. Logs' /\ Queued'
  BY <1>1, <1>2 DEF Logs, Queued
<1>4. Streamed'
  <2> SUFFICES ASSUME ~short'
               PROVE  /\ got'["tcp"] \in Seq(Sents)
                      /\ \A i \in 1 .. Len(got'["tcp"]) : got'["tcp"][i] = Sent(sent'["tcp"][i])
                      /\ Empty'
    BY DEF Streamed
  <2>1. ~short /\ ~(Len(Taken(b)) < ReciveSize(Key(b), Size(b)))
    BY <1>1, Zenon
  <2>2. Filled
    BY <1>1, <2>1 DEF Streamed, Empty
  <2>3. /\ got["tcp"] \in Seq(Sents) /\ sent["tcp"] \in Seq(AllMessages)
        /\ z \in Nat /\ Len(got["tcp"]) \in Nat /\ z = Len(got["tcp"]) + 1
        /\ \A i \in 1 .. Len(got["tcp"]) : got["tcp"][i] = Sent(sent["tcp"][i])
    BY <1>1, <2>1, <2>2, LenProperties DEF Streamed, Logs, Filled
  <2>4. m \in AllMessages
    BY <2>3
  <2>5. stream = ToBuffer(m) /\ arrived \in 8 .. Len(ToBuffer(m)) /\ IsMessage(m)
    BY <1>1, <2>2, <2>4, Whole DEF Filled
  <2> HIDE DEF z, m
  <2>6. /\ Taken(b) = b /\ Len(b) = arrived
        /\ ReciveSize(Key(b), Size(b)) = Len(ToBuffer(m))
        /\ arrived = Len(ToBuffer(m)) => b = ToBuffer(m) /\ Received(b) = Sent(m)
    BY <2>5, PeekAndTake
  <2>7. Len(ToBuffer(m)) \in Nat /\ ToBuffer(m) \in Seq(Bytes(m))
    BY <2>4, Whole
  <2> HIDE DEF b
  <2>8. arrived = Len(ToBuffer(m))
    BY <2>1, <2>5, <2>6, <2>7
  <2>9. stream' = <<>> /\ arrived' = 0
    <3>1. stream' = SubSeq(ToBuffer(m), Len(ToBuffer(m)) + 1, Len(ToBuffer(m)))
      BY <1>1, <2>5, <2>6, <2>8
    <3> QED BY <1>1, <2>6, <2>7, <2>8, <3>1
  <2>10. got'["tcp"] = Append(got["tcp"], Sent(m)) /\ Sent(m) \in Sents
    BY <1>2, <2>4, <2>6, <2>8 DEF Sents
  <2>11. /\ got'["tcp"] \in Seq(Sents) /\ Len(got'["tcp"]) = Len(got["tcp"]) + 1
         /\ got'["tcp"][Len(got["tcp"]) + 1] = Sent(m)
         /\ \A i \in 1 .. Len(got["tcp"]) : got'["tcp"][i] = got["tcp"][i]
    BY <2>3, <2>10, Appended
  <2>12. \A i \in 1 .. Len(got'["tcp"]) : got'["tcp"][i] = Sent(sent["tcp"][i])
    <3> SUFFICES ASSUME NEW i \in 1 .. Len(got'["tcp"]) PROVE got'["tcp"][i] = Sent(sent["tcp"][i])
      OBVIOUS
    <3>1. (i = Len(got["tcp"]) + 1 /\ i = z) \/ i \in 1 .. Len(got["tcp"])
      BY <2>3, <2>11
    <3> QED BY <2>3, <2>11, <3>1 DEF m
  <2>13. Empty'
    BY <1>1, <2>3, <2>9, <2>11 DEF Empty, z
  <2> QED BY <1>1, <2>11, <2>12, <2>13
<1> QED BY <1>1, <1>3, <1>4 DEF Inv

LEMMA NextInv == Inv /\ [Next]_vars => Inv'
<1> SUFFICES ASSUME Inv, [Next]_vars PROVE Inv'
  OBVIOUS
<1>1. ASSUME NEW m \in AllMessages, SendTCP(m) \/ SendUDP(m) PROVE Inv'
  BY <1>1, SendTCPInv, SendUDPInv
<1>2. ASSUME NEW n \in 1 .. MaxStream, Segment(n) PROVE Inv'
  BY <1>2, SegmentInv
<1>3. CASE ReciveTCP \/ ReciveUDP
  BY <1>3, ReciveTCPInv, ReciveUDPInv
<1>4. CASE UNCHANGED vars
  BY <1>4 DEF vars, Inv, Logs, Queued, Streamed, Empty, Filled
<1>5. \A key \in Keys, size \in Sizes, uid \in Uids, offset \in Volume, data \in Payloads :
        Message(key, size, uid, offset, data) \in AllMessages
  BY DEF AllMessages
<1> QED BY <1>1, <1>2, <1>3, <1>4, <1>5 DEF Next, Keys

(* For any sizes, uids, offsets and payloads and any number of messages:   *)
(* after the last message nothing is left in the stream that the next      *)
(* GetArgsKey would take for a header, as long as recv was never short.    *)
THEOREM FrameTheorem == Spec => []InFrame
<1>1. Inv => InFrame
  <2> SUFFICES ASSUME Inv, Len(got["tcp"]) = Len(sent["tcp"]), ~short PROVE stream = <<>>
    BY DEF InFrame
  <2>1. Len(got["tcp"]) \in Nat
    BY LenProperties DEF Inv, Streamed
  <2>2. ~Filled
    BY <2>1 DEF Filled
  <2> QED BY <2>2 DEF Inv, Streamed, Empty
<1> QED BY <1>1, InitInv, NextInv, PTL DEF Spec

(* For any messages, FromBuffer of the receiver recovers from the bytes of *)
(* ToBuffer every argument that was sent: always over UDP, over TCP as     *)
(* long as recv was never short.  And the checksum it computes is the one   *)
(* that was sent: NotEqualToCheck never throws for a datagram as ToBuffer  *)
(* wrote it.                                                               *)
THEOREM RoundTripTheorem == Spec => []RoundTrip
<1>1. Inv => RoundTrip
  BY DEF Inv, Queued, Streamed, RoundTrip
<1> QED BY <1>1, InitInv, NextInv, PTL DEF Spec
=============================================================================
