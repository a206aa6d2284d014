-------------------------- MODULE NbdServerProofs ---------------------------
(***************************************************************************)
(* Proofs about NbdServer: the types, that both sides of the socket pair   *)
(* stay in frame, and that no request is unanswered when serve_nbd ends,   *)
(* for any number of requests and signals and any size of the payload.     *)
(***************************************************************************)
EXTENDS NbdServer, SequenceTheorems, TLAPS

-----------------------------------------------------------------------------
(* The inductive invariant                                                 *)

Units == [kind : {"header"}, op : Ops \cup {"disc", "reply"}, handle : 0 .. MaxRequests]
           \cup [kind : {"data"}, handle : 0 .. MaxRequests]

IsHeader(u) == u.kind = "header"

(* Behind the first n units of s come k units of data of h, and then, if   *)
(* anything, a header.                                                     *)
Skip(s, n, k, h) ==
  /\ n + k <= Len(s)
  /\ \A j \in 1 .. k : s[n + j] = Data(h)
  /\ n + k < Len(s) => IsHeader(s[n + k + 1])

(* The units of data that belong to a header, when the requests W have     *)
(* some.                                                                   *)
Follow(W, h) == IF h \in W THEN PayloadLen ELSE 0

(* Every header of s has its data behind it; only the last one may still   *)
(* wait for them, if s is open.                                            *)
Framed(s, W, open) ==
  \A n \in DOMAIN s :
    IsHeader(s[n]) => \/ Skip(s, n, Follow(W, s[n].handle), s[n].handle)
                      \/ open /\ n = Len(s)

Writes == {h \in Handles : op[h] = "write"}
Reads  == {h \in Handles : op[h] = "read"}

(* What the parent still has to read of the payload of cur.                *)
Rest == IF parent = "payload" THEN PayloadLen - got ELSE 0

HasHeader(s, h) == \E n \in DOMAIN s : IsHeader(s[n]) /\ s[n].handle = h
Once(s) == \A m, n \in DOMAIN s :
             IsHeader(s[m]) /\ IsHeader(s[n]) /\ s[m].handle = s[n].handle => m = n

Busy(h) == parent \in {"payload", "serve", "answer"} /\ cur = h

Types == /\ TypeOK
         /\ up \in Seq(Units) /\ down \in Seq(Units)

(* From the kernel come requests it has sent, and at the end a disconnect. *)
UpUnits ==
  \A n \in DOMAIN up :
    \/ up[n] = Disc /\ n = Len(up) /\ asked
    \/ \E h \in 1 .. sent : up[n] = Header(op[h], h) \/ up[n] = Data(h)

UpFrame == /\ Framed(up, Writes, FALSE)
           /\ parent \notin {"killed", "aborted"} => Skip(up, 0, Rest, cur)

(* To the kernel go replies to requests it has sent.                       *)
DownUnits ==
  \A n \in DOMAIN down :
    \E h \in 1 .. sent : down[n] = Header("reply", h) \/ down[n] = Data(h)

DownFrame ==
  /\ Framed(down, Reads, parent \in {"data", "killed", "aborted"})
  /\ Skip(down, 0, 0, 0)
  /\ parent = "data" => /\ down # <<>> /\ down[Len(down)] = Header("reply", cur)
                        /\ cur \in Reads

(* What the parent works on.                                               *)
Current ==
  /\ \A h \in 1 .. sent : op[h] \in Ops
  /\ parent \in {"payload", "serve", "answer", "data"} => cur \in 1 .. sent
  /\ parent = "payload" => cur \in Writes /\ got < PayloadLen

(* A request is in one place: in the socket, with the parent, in the       *)
(* socket again as a reply, or answered.                                   *)
OnePlace ==
  /\ Once(up) /\ Once(down)
  /\ \A h \in 1 .. sent :
       /\ HasHeader(up, h) => ~Busy(h) /\ ~HasHeader(down, h) /\ h \notin answered
       /\ Busy(h) => ~HasHeader(down, h) /\ h \notin answered
       /\ HasHeader(down, h) => h \notin answered

SomePlace ==
  parent \notin {"killed", "aborted"} =>
    \A h \in 1 .. sent : HasHeader(up, h) \/ Busy(h) \/ HasHeader(down, h) \/ h \in answered

(* Nothing is submitted once the loop of serve_nbd has ended.              *)
Ended == parent \in {"close", "wait", "returned"}
Ending == Ended => /\ asked \/ ChildEnded
                   /\ \A h \in 1 .. sent : HasHeader(down, h) \/ h \in answered

(* The kernel is asked once, and not before the device is known.           *)
Control ==
  /\ asked => ~nbd_dev_to_disconnect /\ handlers
  /\ parent \in {"none", "connect", "fork", "sigaction"} => ~handlers

Inv == /\ Types /\ UpUnits /\ UpFrame /\ DownUnits /\ DownFrame /\ Current
       /\ OnePlace /\ SomePlace /\ Ending /\ Control /\ InFrame

-----------------------------------------------------------------------------
(* Units and sequences of units                                            *)

LEMMA UnitFields ==
  /\ \A o, h : /\ IsHeader(Header(o, h)) /\ Header(o, h).kind = "header"
               /\ Header(o, h).op = o /\ Header(o, h).handle = h
  /\ \A h : ~IsHeader(Data(h)) /\ Data(h).kind = "data" /\ Data(h).handle = h
  /\ IsHeader(Disc) /\ Disc.kind = "header" /\ Disc.op = "disc" /\ Disc.handle = 0
BY DEF IsHeader, Header, Data, Disc

LEMMA UnitTypes ==
  /\ \A o \in Ops \cup {"reply"}, h \in 0 .. MaxRequests : Header(o, h) \in Units
  /\ \A h \in 0 .. MaxRequests : Data(h) \in Units
  /\ Disc \in Units
BY NbdAssumption DEF Header, Data, Disc, Units

LEMMA PayloadType ==
  ASSUME NEW h \in 0 .. MaxRequests
  PROVE  /\ Payload(h) \in Seq(Units) /\ Len(Payload(h)) = PayloadLen
         /\ \A j \in 1 .. PayloadLen : Payload(h)[j] = Data(h)
BY NbdAssumption, UnitTypes DEF Payload

(* What t is when the first m units of s have been read.                   *)
IsCut(s, t, m) ==
  /\ t \in Seq(Units) /\ Len(t) = Len(s) - m
  /\ \A i \in 1 .. Len(t) : t[i] = s[m + i]

(* What t is when a header and k units of its data have been written.      *)
IsLonger(s, t, u, k) ==
  /\ t \in Seq(Units) /\ Len(t) = Len(s) + 1 + k
  /\ \A i \in 1 .. Len(s) : t[i] = s[i]
  /\ t[Len(s) + 1] = u
  /\ \A j \in 1 .. k : t[Len(s) + 1 + j] = Data(u.handle)

LEMMA CutTail ==
  ASSUME NEW s \in Seq(Units), s # <<>>
  PROVE  IsCut(s, Tail(s), 1) /\ Head(s) = s[1] /\ 1 \in DOMAIN s
BY DEF IsCut

LEMMA CutSubSeq ==
  ASSUME NEW s \in Seq(Units), NEW m \in 0 .. Len(s)
  PROVE  IsCut(s, SubSeq(s, m + 1, Len(s)), m)
<1>1. m + 1 \in 1 .. Len(s) + 1 /\ Len(s) \in Nat /\ m \in Nat
  OBVIOUS
<1>2. \A i \in m + 1 .. Len(s) : s[i] \in Units
  BY <1>1
<1>3. SubSeq(s, m + 1, Len(s)) \in Seq(Units)
  BY <1>1, <1>2, SubSeqProperties
<1>4. Len(SubSeq(s, m + 1, Len(s))) = Len(s) - m
  BY <1>1, SubSeqProperties
<1>5. \A i \in 1 .. Len(s) - m : SubSeq(s, m + 1, Len(s))[i] = s[m + i]
  BY <1>1, SubSeqProperties
<1> QED BY <1>3, <1>4, <1>5 DEF IsCut

LEMMA LongerAppend ==
  ASSUME NEW s \in Seq(Units), NEW u \in Units
  PROVE  IsLonger(s, Append(s, u), u, 0)
BY DEF IsLonger

LEMMA LongerPayload ==
  ASSUME NEW s \in Seq(Units), NEW u \in Units, NEW h \in 0 .. MaxRequests, u.handle = h
  PROVE  IsLonger(s, Append(s, u) \o Payload(h), u, PayloadLen)
<1> DEFINE a == Append(s, u)
           p == Payload(h)
<1>1. /\ a \in Seq(Units) /\ Len(a) = Len(s) + 1
      /\ \A i \in 1 .. Len(s) : a[i] = s[i]
      /\ a[Len(s) + 1] = u /\ Len(s) \in Nat
  OBVIOUS
<1>2. p \in Seq(Units) /\ Len(p) = PayloadLen /\ \A j \in 1 .. PayloadLen : p[j] = Data(h)
  BY PayloadType
<1> HIDE DEF a, p
<1>3. a \o p \in Seq(Units) /\ Len(a \o p) = Len(s) + 1 + PayloadLen
  BY <1>1, <1>2, NbdAssumption
<1>4. \A i \in 1 .. Len(a) : (a \o p)[i] = a[i]
  BY <1>1, <1>2, <1>3, NbdAssumption
<1>5. \A j \in 1 .. PayloadLen : (a \o p)[Len(a) + j] = p[j]
  BY <1>1, <1>2, NbdAssumption
<1>6. IsLonger(s, a \o p, u, PayloadLen)
  BY <1>1, <1>2, <1>3, <1>4, <1>5, NbdAssumption DEF IsLonger
<1> QED BY <1>6 DEF a, p

(* Reading keeps the frame.                                                *)
LEMMA CutFrame ==
  ASSUME NEW s \in Seq(Units), NEW t, NEW m \in 0 .. Len(s), IsCut(s, t, m),
         NEW W, NEW open
  PROVE  /\ Framed(s, W, open) => Framed(t, W, open)
         /\ \A h : \A k \in Nat : Skip(s, m, k, h) => Skip(t, 0, k, h)
         /\ \A h : HasHeader(t, h) => HasHeader(s, h)
         /\ Once(s) => Once(t)
<1>1. /\ t \in Seq(Units) /\ Len(t) = Len(s) - m /\ Len(s) \in Nat /\ m \in Nat /\ Len(t) \in Nat
      /\ \A i \in 1 .. Len(t) : t[i] = s[m + i] /\ i \in Nat /\ m + i \in 1 .. Len(s)
      /\ DOMAIN t = 1 .. Len(t) /\ DOMAIN s = 1 .. Len(s) /\ PayloadLen \in Nat
  BY NbdAssumption DEF IsCut
<1>2. ASSUME NEW n \in 0 .. Len(t), NEW k \in Nat, NEW h, Skip(s, m + n, k, h)
      PROVE  Skip(t, n, k, h)
  <2>1. n + k <= Len(t)
    BY <1>1, <1>2 DEF Skip
  <2>2. ASSUME NEW j \in 1 .. k PROVE t[n + j] = Data(h)
    <3>1. n + j \in 1 .. Len(t) /\ m + (n + j) = (m + n) + j
      BY <1>1, <2>1
    <3> QED BY <1>1, <1>2, <3>1 DEF Skip
  <2>3. ASSUME n + k < Len(t) PROVE IsHeader(t[n + k + 1])
    <3>1. n + k + 1 \in 1 .. Len(t) /\ m + (n + k + 1) = (m + n) + k + 1 /\ (m + n) + k < Len(s)
      BY <1>1, <2>3
    <3> QED BY <1>1, <1>2, <3>1 DEF Skip
  <2> QED BY <2>1, <2>2, <2>3 DEF Skip
<1>3. Framed(s, W, open) => Framed(t, W, open)
  <2> SUFFICES ASSUME Framed(s, W, open), NEW n \in DOMAIN t, IsHeader(t[n])
               PROVE  \/ Skip(t, n, Follow(W, t[n].handle), t[n].handle)
                      \/ open /\ n = Len(t)
    BY DEF Framed
  <2>1. m + n \in DOMAIN s /\ s[m + n] = t[n] /\ n \in 0 .. Len(t)
    BY <1>1
  <2>2. CASE open /\ m + n = Len(s)
    BY <1>1, <2>1, <2>2
  <2>3. CASE Skip(s, m + n, Follow(W, t[n].handle), t[n].handle)
    <3>1. Follow(W, t[n].handle) \in Nat
      BY <1>1 DEF Follow
    <3> QED BY <1>2, <2>1, <2>3, <3>1
  <2> QED BY <2>1, <2>2, <2>3 DEF Framed
<1>4. \A h : \A k \in Nat : Skip(s, m, k, h) => Skip(t, 0, k, h)
  <2>1. 0 \in 0 .. Len(t) /\ m + 0 = m
    BY <1>1
  <2> QED BY <1>2, <2>1
<1>5. \A h : HasHeader(t, h) => HasHeader(s, h)
  BY <1>1 DEF HasHeader
<1>6. Once(s) => Once(t)
  <2> SUFFICES ASSUME Once(s), NEW a \in DOMAIN t, NEW b \in DOMAIN t,
                      IsHeader(t[a]), IsHeader(t[b]), t[a].handle = t[b].handle
               PROVE  a = b
    BY DEF Once
  <2>1. m + a = m + b
    BY <1>1 DEF Once
  <2> QED BY <1>1, <2>1
<1> QED BY <1>3, <1>4, <1>5, <1>6

(* Writing a header with its data keeps the frame.                         *)
LEMMA LongerFrame ==
  ASSUME NEW s \in Seq(Units), NEW t, NEW u \in Units, NEW k \in Nat, IsLonger(s, t, u, k),
         IsHeader(u)
  PROVE  /\ \A h : \A n \in 0 .. Len(s), i \in Nat : Skip(s, n, i, h) => Skip(t, n, i, h)
         /\ \A h : HasHeader(t, h) <=> HasHeader(s, h) \/ h = u.handle
         /\ Once(s) /\ ~HasHeader(s, u.handle) => Once(t)
         /\ \A W : Framed(s, W, FALSE) /\ k = Follow(W, u.handle) => Framed(t, W, FALSE)
         /\ \A W : Framed(s, W, FALSE) /\ k = 0 => Framed(t, W, TRUE)
<1>1. /\ t \in Seq(Units) /\ Len(t) = Len(s) + 1 + k /\ Len(s) \in Nat /\ Len(t) \in Nat
      /\ \A i \in 1 .. Len(s) : t[i] = s[i] /\ i \in Nat
      /\ t[Len(s) + 1] = u
      /\ \A j \in 1 .. k : t[Len(s) + 1 + j] = Data(u.handle)
      /\ DOMAIN t = 1 .. Len(t) /\ DOMAIN s = 1 .. Len(s) /\ PayloadLen \in Nat
  BY NbdAssumption DEF IsLonger
<1>2. ASSUME NEW n \in DOMAIN t, IsHeader(t[n])
      PROVE  (n \in DOMAIN s /\ s[n] = t[n]) \/ (n = Len(s) + 1 /\ t[n] = u)
  <2>1. CASE n \in 1 .. Len(s)
    BY <1>1, <2>1
  <2>2. CASE n = Len(s) + 1
    BY <1>1, <2>2
  <2>3. CASE n \in Len(s) + 2 .. Len(t)
    <3>1. n - (Len(s) + 1) \in 1 .. k /\ n = Len(s) + 1 + (n - (Len(s) + 1))
      BY <1>1, <2>3
    <3>2. t[n] = Data(u.handle)
      BY <1>1, <3>1
    <3> QED BY <1>2, <3>2, UnitFields
  <2> QED BY <1>1, <2>1, <2>2, <2>3
<1>3. \A h : \A n \in 0 .. Len(s), i \in Nat : Skip(s, n, i, h) => Skip(t, n, i, h)
  <2> SUFFICES ASSUME NEW n \in 0 .. Len(s), NEW i \in Nat, NEW h, Skip(s, n, i, h)
               PROVE  Skip(t, n, i, h)
    OBVIOUS
  <2>1. n + i <= Len(s) /\ n + i <= Len(t) /\ n + i \in Nat
    BY <1>1 DEF Skip
  <2>2. ASSUME NEW j \in 1 .. i PROVE t[n + j] = Data(h)
    <3>1. n + j \in 1 .. Len(s)
      BY <1>1, <2>1
    <3> QED BY <1>1, <3>1 DEF Skip
  <2>3. IsHeader(t[n + i + 1])
    <3>1. CASE n + i < Len(s)
      <4>1. n + i + 1 \in 1 .. Len(s)
        BY <1>1, <2>1, <3>1
      <4> QED BY <1>1, <3>1, <4>1 DEF Skip
    <3>2. CASE n + i = Len(s)
      BY <1>1, <3>2
    <3>3. n + i < Len(s) \/ n + i = Len(s)
      <4>1. n \in Int /\ i \in Int /\ Len(s) \in Int
        BY <1>1
      <4> QED BY <2>1, <4>1
    <3> QED BY <3>1, <3>2, <3>3
  <2> QED BY <2>1, <2>2, <2>3 DEF Skip
<1>4. \A h : HasHeader(t, h) <=> HasHeader(s, h) \/ h = u.handle
  <2>1. DOMAIN s \subseteq DOMAIN t /\ Len(s) + 1 \in DOMAIN t
    BY <1>1
  <2> QED BY <1>1, <1>2, <2>1 DEF HasHeader
<1>5. Once(s) /\ ~HasHeader(s, u.handle) => Once(t)
  BY <1>2 DEF Once, HasHeader
<1>6. ASSUME NEW W, NEW open \in BOOLEAN, Framed(s, W, FALSE),
             k = Follow(W, u.handle) \/ (k = 0 /\ open)
      PROVE  Framed(t, W, open)
  <2> SUFFICES ASSUME NEW n \in DOMAIN t, IsHeader(t[n])
               PROVE  \/ Skip(t, n, Follow(W, t[n].handle), t[n].handle)
                      \/ open /\ n = Len(t)
    BY DEF Framed
  <2>1. CASE n \in DOMAIN s /\ s[n] = t[n]
    <3>1. Skip(s, n, Follow(W, s[n].handle), s[n].handle)
      BY <1>6, <2>1 DEF Framed
    <3>2. Follow(W, s[n].handle) \in Nat /\ n \in 0 .. Len(s)
      BY <1>1, <2>1 DEF Follow
    <3> QED BY <1>3, <2>1, <3>1, <3>2
  <2>2. CASE n = Len(s) + 1 /\ t[n] = u
    <3>1. CASE k = Follow(W, u.handle)
      <4>1. Skip(t, n, k, u.handle)
        BY <1>1, <2>2 DEF Skip
      <4> QED BY <2>2, <3>1, <4>1
    <3>2. CASE k = 0 /\ open
      BY <1>1, <2>2, <3>2
    <3> QED BY <1>6, <3>1, <3>2
  <2> QED BY <1>2, <2>1, <2>2
<1>7. \A W : Framed(s, W, FALSE) /\ k = Follow(W, u.handle) => Framed(t, W, FALSE)
  BY <1>6
<1>8. \A W : Framed(s, W, FALSE) /\ k = 0 => Framed(t, W, TRUE)
  BY <1>6
<1> QED BY <1>3, <1>4, <1>5, <1>7, <1>8

(* The data of a read close what Answer has left open.                     *)
LEMMA CloseFrame ==
  ASSUME NEW s \in Seq(Units), s # <<>>, NEW h \in 0 .. MaxRequests, IsHeader(s[Len(s)]),
         s[Len(s)].handle = h, NEW W, h \in W, Framed(s, W, TRUE)
  PROVE  /\ s \o Payload(h) \in Seq(Units)
         /\ Framed(s \o Payload(h), W, FALSE)
         /\ Skip(s, 0, 0, 0) => Skip(s \o Payload(h), 0, 0, 0)
         /\ \A x : HasHeader(s \o Payload(h), x) <=> HasHeader(s, x)
         /\ Once(s) => Once(s \o Payload(h))
         /\ \A n \in DOMAIN (s \o Payload(h)) :
              (s \o Payload(h))[n] = Data(h) \/ (n \in DOMAIN s /\ (s \o Payload(h))[n] = s[n])
<1> DEFINE p == Payload(h)
           t == s \o p
<1>1. p \in Seq(Units) /\ Len(p) = PayloadLen /\ \A j \in 1 .. PayloadLen : p[j] = Data(h)
  BY PayloadType
<1> HIDE DEF p
<1>2. /\ t \in Seq(Units) /\ Len(t) = Len(s) + PayloadLen /\ Len(s) \in Nat \ {0}
      /\ PayloadLen \in Nat
  BY <1>1, NbdAssumption
<1>3. \A i \in 1 .. Len(s) : t[i] = s[i] /\ i \in Nat
  BY <1>1, <1>2
<1>4. \A j \in 1 .. PayloadLen : t[Len(s) + j] = p[j]
  BY <1>1, <1>2
<1> HIDE DEF t
<1>5. \A j \in 1 .. PayloadLen : t[Len(s) + j] = Data(h)
  BY <1>1, <1>4
<1>6. DOMAIN t = 1 .. Len(t) /\ DOMAIN s = 1 .. Len(s)
  BY <1>2
<1>7. \A n \in DOMAIN t : t[n] = Data(h) \/ (n \in DOMAIN s /\ t[n] = s[n])
  <2> SUFFICES ASSUME NEW n \in DOMAIN t
               PROVE  t[n] = Data(h) \/ (n \in DOMAIN s /\ t[n] = s[n])
    OBVIOUS
  <2>1. CASE n <= Len(s)
    BY <1>2, <1>3, <1>6, <2>1
  <2>2. CASE n > Len(s)
    <3>1. n - Len(s) \in 1 .. PayloadLen /\ n = Len(s) + (n - Len(s))
      BY <1>2, <1>6, <2>2
    <3> QED BY <1>5, <3>1
  <2> QED BY <1>2, <1>6, <2>1, <2>2
<1>8. \A n \in DOMAIN t : IsHeader(t[n]) => n \in DOMAIN s /\ t[n] = s[n]
  BY <1>7, UnitFields
<1>9. DOMAIN s \subseteq DOMAIN t
  BY <1>2, <1>6
<1>10. \A x : HasHeader(t, x) <=> HasHeader(s, x)
  BY <1>3, <1>6, <1>8, <1>9 DEF HasHeader
<1>11. Once(s) => Once(t)
  BY <1>8 DEF Once
<1>12. Skip(s, 0, 0, 0) => Skip(t, 0, 0, 0)
  BY <1>2, <1>3 DEF Skip
<1>13. Framed(t, W, FALSE)
  <2> SUFFICES ASSUME NEW n \in DOMAIN t, IsHeader(t[n])
               PROVE  Skip(t, n, Follow(W, t[n].handle), t[n].handle)
    BY DEF Framed
  <2>1. n \in 1 .. Len(s) /\ t[n] = s[n]
    BY <1>6, <1>8
  <2>2. CASE n = Len(s)
    <3>1. t[n].handle = h /\ Follow(W, h) = PayloadLen
      BY <2>1, <2>2 DEF Follow
    <3>2. Skip(t, n, PayloadLen, h)
      BY <1>2, <1>5, <2>2 DEF Skip
    <3> QED BY <3>1, <3>2
  <2>3. CASE n # Len(s)
    <3> DEFINE k == Follow(W, s[n].handle)
               x == s[n].handle
    <3>1. k \in Nat
      BY <1>2 DEF Follow
    <3>2. Skip(s, n, k, x)
      BY <1>6, <2>1, <2>3 DEF Framed
    <3> HIDE DEF k, x
    <3>3. n + k <= Len(s) /\ n + k \in Nat /\ n + k <= Len(t)
      BY <1>2, <2>1, <3>1, <3>2 DEF Skip
    <3>4. n + k < Len(s)
      <4> SUFFICES ASSUME n + k = Len(s) PROVE FALSE
        BY <1>2, <3>3
      <4>1. k \in 1 .. k /\ n + k = Len(s)
        BY <1>2, <2>1, <2>3, <3>1
      <4>2. s[Len(s)] = Data(x)
        BY <3>2, <4>1 DEF Skip
      <4> QED BY <4>2, UnitFields
    <3>5. \A j \in 1 .. k : t[n + j] = Data(x)
      <4> SUFFICES ASSUME NEW j \in 1 .. k PROVE t[n + j] = Data(x)
        OBVIOUS
      <4>1. n + j \in 1 .. Len(s)
        BY <1>2, <2>1, <3>1, <3>3
      <4> QED BY <1>3, <3>2, <4>1 DEF Skip
    <3>6. IsHeader(t[n + k + 1])
      <4>1. n + k + 1 \in 1 .. Len(s)
        BY <1>2, <3>3, <3>4
      <4> QED BY <1>3, <3>2, <3>4, <4>1 DEF Skip
    <3>7. Skip(t, n, k, x)
      BY <3>3, <3>5, <3>6 DEF Skip
    <3> QED BY <2>1, <3>7 DEF k, x
  <2> QED BY <2>2, <2>3
<1>14. /\ t \in Seq(Units)
       /\ Framed(t, W, FALSE)
       /\ Skip(s, 0, 0, 0) => Skip(t, 0, 0, 0)
       /\ \A x : HasHeader(t, x) <=> HasHeader(s, x)
       /\ Once(s) => Once(t)
       /\ \A n \in DOMAIN t : t[n] = Data(h) \/ (n \in DOMAIN s /\ t[n] = s[n])
  BY <1>2, <1>7, <1>10, <1>11, <1>12, <1>13
<1> QED BY <1>14 DEF t, p

(* The frame depends only on the headers that are in s.                    *)
LEMMA FrameSet ==
  ASSUME NEW s, NEW W, NEW V, NEW open,
         \A n \in DOMAIN s : s[n].handle \in W <=> s[n].handle \in V
  PROVE  Framed(s, W, open) => Framed(s, V, open)
BY DEF Framed, Follow

LEMMA FrameOpen ==
  ASSUME NEW s, NEW W
  PROVE  Framed(s, W, FALSE) => Framed(s, W, TRUE)
BY DEF Framed

(* Reading data takes no header away.                                      *)
LEMMA CutData ==
  ASSUME NEW s \in Seq(Units), NEW t, NEW m \in 0 .. Len(s), IsCut(s, t, m),
         \A j \in 1 .. m : ~IsHeader(s[j])
  PROVE  \A h : HasHeader(t, h) <=> HasHeader(s, h)
<1>1. /\ t \in Seq(Units) /\ Len(t) = Len(s) - m /\ Len(s) \in Nat /\ m \in Nat /\ Len(t) \in Nat
      /\ \A i \in 1 .. Len(t) : t[i] = s[m + i] /\ m + i \in 1 .. Len(s)
      /\ DOMAIN t = 1 .. Len(t) /\ DOMAIN s = 1 .. Len(s)
  BY DEF IsCut
<1>2. ASSUME NEW n \in DOMAIN s, IsHeader(s[n])
      PROVE  \E i \in DOMAIN t : t[i] = s[n]
  <2>1. n > m
    BY <1>1, <1>2
  <2>2. n - m \in 1 .. Len(t) /\ m + (n - m) = n
    BY <1>1, <2>1
  <2> QED BY <1>1, <2>2
<1> QED BY <1>1, <1>2 DEF HasHeader

(* Reading a header and its data takes away that header and no other.      *)
LEMMA CutHeader ==
  ASSUME NEW s \in Seq(Units), NEW t, NEW m \in 1 .. Len(s), IsCut(s, t, m), Once(s),
         IsHeader(s[1]), \A j \in 2 .. m : ~IsHeader(s[j])
  PROVE  \A h : HasHeader(t, h) <=> HasHeader(s, h) /\ h # s[1].handle
<1>1. /\ t \in Seq(Units) /\ Len(t) = Len(s) - m /\ Len(s) \in Nat /\ m \in Nat /\ Len(t) \in Nat
      /\ \A i \in 1 .. Len(t) : t[i] = s[m + i] /\ m + i \in 1 .. Len(s) /\ m + i # 1
      /\ DOMAIN t = 1 .. Len(t) /\ DOMAIN s = 1 .. Len(s) /\ 1 \in 1 .. Len(s)
  BY DEF IsCut
<1>2. ASSUME NEW n \in DOMAIN s, IsHeader(s[n]), n # 1
      PROVE  \E i \in DOMAIN t : t[i] = s[n]
  <2>1. n > m
    BY <1>1, <1>2
  <2>2. n - m \in 1 .. Len(t) /\ m + (n - m) = n
    BY <1>1, <2>1
  <2> QED BY <1>1, <2>2
<1>3. ASSUME NEW h, HasHeader(t, h) PROVE HasHeader(s, h) /\ h # s[1].handle
  <2>1. PICK i \in DOMAIN t : IsHeader(t[i]) /\ t[i].handle = h
    BY <1>3 DEF HasHeader
  <2>2. m + i \in DOMAIN s /\ s[m + i] = t[i] /\ m + i # 1
    BY <1>1, <2>1
  <2> QED BY <1>1, <2>1, <2>2 DEF HasHeader, Once
<1>4. ASSUME NEW h, HasHeader(s, h), h # s[1].handle PROVE HasHeader(t, h)
  BY <1>2, <1>4 DEF HasHeader
<1> QED BY <1>3, <1>4

-----------------------------------------------------------------------------
(* The invariant                                                           *)

Frames == /\ UpUnits /\ UpFrame /\ DownUnits /\ DownFrame /\ Current
          /\ OnePlace /\ SomePlace /\ InFrame

Calm == {"none", "connect", "fork", "sigaction", "loop", "close", "wait", "returned",
         "refused"}

LEMMA InitInv == Init => Inv
<1> SUFFICES ASSUME Init PROVE Inv
  OBVIOUS
<1>1. /\ up = <<>> /\ down = <<>> /\ DOMAIN up = {} /\ DOMAIN down = {}
      /\ Len(up) = 0 /\ Len(down) = 0 /\ up \in Seq(Units) /\ down \in Seq(Units)
      /\ 1 .. sent = {} /\ sent = 0 /\ 0 \in 0 .. MaxRequests
      /\ 0 \in 0 .. PayloadLen
  BY NbdAssumption DEF Init
<1>2. TypeOK
  BY <1>1, NbdAssumption DEF Init, TypeOK, Ops
<1>3. UpFrame /\ DownFrame
  BY <1>1 DEF Init, UpFrame, DownFrame, Framed, Skip, Rest
<1>4. UpUnits /\ DownUnits /\ Current
  BY <1>1 DEF Init, UpUnits, DownUnits, Current
<1>5. OnePlace /\ SomePlace /\ Ending /\ Control /\ InFrame
  BY <1>1 DEF Init, OnePlace, SomePlace, Ending, Ended, Control, InFrame, Once
<1> QED BY <1>1, <1>2, <1>3, <1>4, <1>5 DEF Inv, Types

(* The steps that leave the sockets alone.                                 *)
LEMMA QuietStep ==
  ASSUME Inv, UNCHANGED <<up, down, cur, got, op, sent, answered, confused>>,
         asked => asked', short => short',
         \/ parent' = parent
         \/ parent' = "killed"
         \/ parent' = "aborted" /\ short'
         \/ parent = "serve" /\ parent' = "answer"
         \/ parent \in Calm /\ parent' \in Calm
  PROVE  Frames'
<1> USE DEF Inv
<1>1. /\ Writes' = Writes /\ Reads' = Reads
      /\ \A h : HasHeader(up, h)' = HasHeader(up, h) /\ HasHeader(down, h)' = HasHeader(down, h)
      /\ Once(up)' = Once(up) /\ Once(down)' = Once(down)
  BY DEF Writes, Reads, HasHeader, Once
<1>2. /\ parent' \notin {"killed", "aborted"} => parent \notin {"killed", "aborted"}
      /\ parent' = "data" => parent = "data"
      /\ parent = "data" => parent' \in {"data", "killed", "aborted"}
      /\ parent' \notin {"killed", "aborted"} => Rest' = Rest
      /\ \A h : /\ Busy(h)' => Busy(h)
                /\ parent' \notin {"killed", "aborted"} /\ Busy(h) => Busy(h)'
      /\ parent \in {"data", "killed", "aborted"} => parent' \in {"data", "killed", "aborted"}
      /\ parent' = "aborted" => short'
  BY DEF Calm, Rest, Busy, InFrame
<1>3. UpUnits' /\ DownUnits'
  BY DEF UpUnits, DownUnits
<1>4. UpFrame'
  <2>1. Framed(up, Writes, FALSE)'
    BY <1>1 DEF UpFrame, Framed, Skip, Follow
  <2>2. parent' \notin {"killed", "aborted"} => Skip(up, 0, Rest, cur)'
    BY <1>2 DEF UpFrame, Skip
  <2> QED BY <2>1, <2>2 DEF UpFrame
<1>5. DownFrame'
  <2>1. CASE parent \in {"data", "killed", "aborted"}
    BY <1>1, <1>2, <2>1 DEF DownFrame, Framed, Skip, Follow
  <2>2. CASE parent \notin {"data", "killed", "aborted"}
    BY <1>1, <1>2, <2>2 DEF DownFrame, Framed, Skip, Follow
  <2> QED BY <2>1, <2>2
<1>6. Current'
  BY <1>1 DEF Current, Calm
<1>7. OnePlace' /\ SomePlace'
  BY <1>1, <1>2 DEF OnePlace, SomePlace
<1>8. InFrame'
  BY <1>2 DEF InFrame
<1> QED BY <1>3, <1>4, <1>5, <1>6, <1>7, <1>8 DEF Frames

(* The steps that change neither what is in the sockets nor the request.   *)
LEMMA QuietInv ==
  ASSUME Inv,
         \/ Startup \/ TCPConnect \/ SetDevice \/ SetHandlers \/ ReadShort \/ Serve \/ EndOfFile
         \/ Close \/ WaitPid \/ ChildStep \/ EarlySignal
         \/ Signal /\ UNCHANGED up
         \/ UNCHANGED vars
  PROVE  Inv'
<1> USE DEF startVars, kernelVars, signalVars
<1>1. /\ UNCHANGED <<up, down, cur, got, op, sent, answered, confused>>
      /\ \/ parent' = parent
         \/ parent' = "killed"
         \/ parent' = "aborted" /\ short'
         \/ parent = "serve" /\ parent' = "answer"
         \/ parent \in Calm /\ parent' \in Calm
  BY DEF Startup, TCPListen, Spawn, TCPAccept, WaitDevice, MKFSAndMount, TCPConnect, SetDevice,
         SetHandlers, ReadShort, Serve, EndOfFile, Close, WaitPid, ChildStep, SetSock, SetFlags, DoIt,
         Clear, EarlySignal, Signal, vars, Parent, Calm
<1>2. (asked => asked') /\ (short => short')
  BY DEF Startup, TCPListen, Spawn, TCPAccept, WaitDevice, MKFSAndMount, TCPConnect, SetDevice,
         SetHandlers, ReadShort, Serve, EndOfFile, Close, WaitPid, ChildStep, SetSock, SetFlags, DoIt,
         Clear, EarlySignal, Signal, vars
<1>3. Frames'
  BY <1>1, <1>2, QuietStep
<1>4. Types'
  <2>1. TypeOK
    BY DEF Inv, Types
  <2>2. /\ main' \in {"listen", "spawn", "accept", "run"}
        /\ tcp' \in {"closed", "open", "pending", "accepted"}
        /\ mkfs' \in {"none", "sleep", "mkfs", "mount", "done", "failed"}
        /\ device' = device
        /\ child' \in {"none", "setup", "flags", "doit", "clear", "exited", "failed"}
    BY <2>1 DEF TypeOK, Startup, TCPListen, Spawn, TCPAccept, WaitDevice, MKFSAndMount, Main,
         TCPConnect, SetDevice,
         SetHandlers, ReadShort, Serve, EndOfFile, Close, WaitPid, ChildStep, SetSock, SetFlags, DoIt,
         Clear, EarlySignal, Signal, vars, Parent, Child
  <2>3. /\ nbd_dev_to_disconnect' \in BOOLEAN /\ handlers' \in BOOLEAN /\ sock' \in BOOLEAN
        /\ asked' \in BOOLEAN /\ wanted' \in BOOLEAN /\ short' \in BOOLEAN
    <3>1. /\ nbd_dev_to_disconnect \in BOOLEAN /\ handlers \in BOOLEAN /\ sock \in BOOLEAN
          /\ asked \in BOOLEAN /\ wanted \in BOOLEAN /\ short \in BOOLEAN
      BY <2>1 DEF TypeOK
    <3> QED BY <3>1 DEF Startup, TCPListen, Spawn, TCPAccept, WaitDevice, MKFSAndMount, Main,
           TCPConnect, SetDevice, SetHandlers,
           ReadShort, Serve, EndOfFile, Close, WaitPid, ChildStep, SetSock, SetFlags, DoIt,
           Clear, EarlySignal, Signal, vars, Parent, Child
  <2>4. TypeOK'
    BY <1>1, <2>1, <2>2, <2>3 DEF TypeOK, Calm
  <2> QED BY <1>1, <2>4 DEF Inv, Types
<1>5. Control'
  BY DEF Inv, Control, Startup, TCPListen, Spawn, TCPAccept, WaitDevice, MKFSAndMount, Main,
         TCPConnect, SetDevice,
         SetHandlers, ReadShort, Serve, EndOfFile, Close, WaitPid, ChildStep, SetSock, SetFlags, DoIt,
         Clear, EarlySignal, Signal, vars, Parent, Child
<1>6. Ending'
  <2>1. \A h : HasHeader(down, h)' = HasHeader(down, h)
    BY <1>1 DEF HasHeader
  <2>2. CASE Ended
    <3>1. ChildEnded => ChildEnded'
      BY <2>2 DEF Ended, ChildEnded, Startup, TCPListen, Spawn, TCPAccept, WaitDevice, MKFSAndMount, Main,
         TCPConnect, SetDevice,
         SetHandlers, ReadShort, Serve, EndOfFile, Close, WaitPid, ChildStep, SetSock, SetFlags, DoIt,
         Clear, EarlySignal, Signal, vars, Parent, Child
    <3> QED BY <1>1, <1>2, <2>1, <2>2, <3>1 DEF Inv, Ending
  <2>3. CASE EndOfFile
    <3>1. parent = "loop" /\ up = <<>> /\ ChildEnded /\ child' = child
      BY <2>3 DEF EndOfFile, Parent
    <3>2. DOMAIN up = {}
      BY <3>1
    <3>3. \A h : ~HasHeader(up, h) /\ ~Busy(h)
      BY <3>1, <3>2 DEF HasHeader, Busy
    <3> QED BY <1>1, <2>1, <3>1, <3>3 DEF Inv, SomePlace, Ending, ChildEnded
  <2>4. CASE ~Ended /\ ~EndOfFile
    <3>1. ~Ended'
      BY <2>4 DEF Ended, Startup, TCPListen, Spawn, TCPAccept, WaitDevice, MKFSAndMount, Main,
         TCPConnect, SetDevice,
         SetHandlers, ReadShort, Serve, Close, WaitPid, ChildStep, SetSock, SetFlags, DoIt,
         Clear, EarlySignal, Signal, vars, Parent, Child
    <3> QED BY <3>1 DEF Ending
  <2> QED BY <2>2, <2>3, <2>4
<1> QED BY <1>3, <1>4, <1>5, <1>6 DEF Inv, Frames

(* When up is only read from, everything else stays.                       *)
LEMMA ReadUnits ==
  ASSUME Inv, NEW m \in 0 .. Len(up), IsCut(up, up', m), UNCHANGED <<op, sent, asked>>
  PROVE  UpUnits' /\ Framed(up', Writes', FALSE) /\ Once(up')
<1>1. up \in Seq(Units) /\ UpUnits /\ Framed(up, Writes, FALSE) /\ Once(up)
  BY DEF Inv, Types, UpFrame, OnePlace
<1>2. Writes' = Writes
  BY DEF Writes
<1>3. /\ Len(up') = Len(up) - m /\ Len(up) \in Nat /\ m \in Nat
      /\ DOMAIN up' = 1 .. Len(up') /\ DOMAIN up = 1 .. Len(up)
      /\ \A i \in 1 .. Len(up') : up'[i] = up[m + i] /\ m + i \in 1 .. Len(up)
  BY <1>1 DEF IsCut
<1>4. UpUnits'
  <2> SUFFICES ASSUME NEW n \in DOMAIN up'
               PROVE  \/ up'[n] = Disc /\ n = Len(up') /\ asked'
                      \/ \E h \in 1 .. sent' : up'[n] = Header(op'[h], h) \/ up'[n] = Data(h)
    BY DEF UpUnits, Header, Data, Disc
  <2>1. m + n \in DOMAIN up /\ up'[n] = up[m + n]
    BY <1>3
  <2>2. CASE up[m + n] = Disc /\ m + n = Len(up) /\ asked
    <3>1. n = Len(up')
      BY <1>3, <2>2
    <3> QED BY <2>1, <2>2, <3>1
  <2>3. CASE \E h \in 1 .. sent : up[m + n] = Header(op[h], h) \/ up[m + n] = Data(h)
    BY <2>1, <2>3
  <2> QED BY <1>1, <2>1, <2>2, <2>3 DEF UpUnits
<1> QED BY <1>1, <1>2, <1>4, CutFrame

(* When down and the requests stay, so does what is known about down.      *)
LEMMA DownStays ==
  ASSUME Inv, UNCHANGED <<down, op, sent, answered>>
  PROVE  /\ DownUnits' /\ Reads' = Reads /\ Writes' = Writes /\ Once(down)'
         /\ Skip(down, 0, 0, 0)'
         /\ \A h : HasHeader(down, h)' = HasHeader(down, h)
         /\ parent \notin {"data", "killed", "aborted"} => Framed(down', Reads', FALSE)
BY DEF Inv, DownUnits, DownFrame, OnePlace, Reads, Writes, Once, Skip, HasHeader, Framed, Follow

LEMMA ReadRequestInv == ASSUME Inv, ReadRequest PROVE Inv'
<1> USE DEF startVars, kernelVars, signalVars
<1>1. /\ parent = "loop" /\ up # <<>> /\ up' = Tail(up) /\ cur' = Head(up).handle /\ got' = 0
      /\ UNCHANGED <<down, child, op, sent, answered, confused, asked, handlers, main, tcp, mkfs, device, short,
                     nbd_dev_to_disconnect, sock, wanted>>
  BY DEF ReadRequest
<1>2. up \in Seq(Units) /\ IsCut(up, up', 1) /\ Head(up) = up[1] /\ 1 \in DOMAIN up
      /\ 1 \in 0 .. Len(up) /\ 1 \in 1 .. Len(up)
  BY <1>1, CutTail DEF Inv, Types
<1>3. IsHeader(up[1])
  <2>1. Skip(up, 0, 0, cur)
    BY <1>1 DEF Inv, UpFrame, Rest
  <2> QED BY <1>2, <2>1 DEF Skip
<1>4. \A h : HasHeader(up', h) <=> HasHeader(up, h) /\ h # up[1].handle
  BY <1>2, <1>3, CutHeader DEF Inv, OnePlace
<1>5. UpUnits' /\ Framed(up', Writes', FALSE) /\ Once(up')
  BY <1>1, <1>2, ReadUnits
<1>6. /\ DownUnits' /\ Reads' = Reads /\ Writes' = Writes /\ Once(down)'
      /\ Skip(down, 0, 0, 0)'
      /\ \A h : HasHeader(down, h)' = HasHeader(down, h)
      /\ Framed(down', Reads', FALSE)
  BY <1>1, DownStays
<1>7. \A h : ~Busy(h)
  BY <1>1 DEF Busy
<1>8. \A h : HasHeader(up, h)' = HasHeader(up', h)
  BY DEF HasHeader, IsHeader
<1>9. CASE up[1] = Disc
  <2>1. 1 = Len(up) /\ asked
    <3>1. \A h \in 1 .. sent : Disc # Header(op[h], h) /\ Disc # Data(h)
      BY <1>1, UnitFields DEF Inv, Types, TypeOK
    <3> QED BY <1>2, <1>9, <3>1 DEF Inv, UpUnits
  <2>2. parent' = "close" /\ cur' = 0
    BY <1>1, <1>2, <1>9, UnitFields DEF ReadRequest
  <2>3. up' \in Seq(Units) /\ Len(up') = 0 /\ DOMAIN up' = {}
    BY <1>2, <2>1 DEF IsCut
  <2>4. Types'
    BY <1>1, <2>2, <2>3, NbdAssumption DEF Inv, Types, TypeOK
  <2>5. UpFrame'
    <3>1. Skip(up', 0, 0, 0)
      BY <2>3 DEF Skip
    <3>2. Rest' = 0
      BY <2>2 DEF Rest
    <3>3. Skip(up, 0, Rest, cur)'
      BY <2>2, <3>1, <3>2
    <3> QED BY <1>5, <3>3 DEF UpFrame
  <2>6. DownFrame'
    <3>1. (parent \in {"data", "killed", "aborted"})' = FALSE
      BY <2>2
    <3>2. Framed(down, Reads, parent \in {"data", "killed", "aborted"})'
      BY <1>6, <3>1
    <3> QED BY <1>6, <2>2, <3>2 DEF DownFrame
  <2>7. \A h : ~HasHeader(up, h)' /\ ~Busy(h)'
    BY <2>2, <2>3 DEF HasHeader, Busy
  <2>8. OnePlace'
    BY <1>1, <1>5, <1>6, <2>7 DEF Inv, OnePlace, Once, IsHeader
  <2>9. \A h \in 1 .. sent : HasHeader(down, h) \/ h \in answered
    <3> SUFFICES ASSUME NEW h \in 1 .. sent PROVE HasHeader(down, h) \/ h \in answered
      OBVIOUS
    <3>1. ~HasHeader(up', h)
      BY <1>8, <2>7
    <3>2. h # 0 /\ up[1].handle = 0
      BY <1>9, UnitFields DEF Inv, Types, TypeOK
    <3>3. ~HasHeader(up, h)
      BY <1>4, <3>1, <3>2
    <3> QED BY <1>1, <1>7, <3>3 DEF Inv, SomePlace
  <2>10. Ending' /\ SomePlace'
    BY <1>1, <1>6, <2>1, <2>9 DEF Ending, SomePlace
  <2>11. Current' /\ InFrame' /\ Control'
    BY <1>1, <2>2 DEF Inv, Current, InFrame, Control
  <2> QED BY <1>5, <1>6, <2>4, <2>5, <2>6, <2>8, <2>10, <2>11 DEF Inv
<1>10. ASSUME NEW h \in 1 .. sent, up[1] = Header(op[h], h) PROVE Inv'
  <2>1. op[h] \in Ops /\ h \in Handles /\ h \in 0 .. MaxRequests
    <3>1. sent \in 0 .. MaxRequests
      BY DEF Inv, Types, TypeOK
    <3>2. h \in 1 .. MaxRequests
      BY <3>1, NbdAssumption
    <3> QED BY <3>2, NbdAssumption DEF Inv, Current, Handles
  <2>2. /\ up[1].kind = "header" /\ up[1].op = op[h] /\ up[1].handle = h /\ cur' = h
    BY <1>1, <1>2, <1>10, UnitFields
  <2>3. /\ parent' \in {"payload", "serve", "answer"}
        /\ parent' = "payload" <=> op[h] = "write"
    BY <1>1, <1>2, <2>1, <2>2 DEF ReadRequest, Ops
  <2>4. up' \in Seq(Units)
    BY <1>2 DEF IsCut
  <2>5. Types'
    BY <1>1, <2>1, <2>2, <2>3, <2>4, NbdAssumption DEF Inv, Types, TypeOK
  <2>6. UpFrame'
    <3>1. Skip(up, 1, Follow(Writes, h), h)
      BY <1>2, <1>3, <2>2 DEF Inv, UpFrame, Framed
    <3>2. Follow(Writes, h) \in Nat /\ Rest' = Follow(Writes, h)
      BY <1>1, <2>1, <2>3, NbdAssumption DEF Follow, Writes, Rest
    <3>3. Skip(up', 0, Follow(Writes, h), h)
      BY <1>2, <3>1, <3>2, CutFrame
    <3>4. Skip(up, 0, Rest, cur)'
      BY <2>2, <3>2, <3>3
    <3> QED BY <1>5, <3>4 DEF UpFrame
  <2>7. DownFrame'
    <3>1. (parent \in {"data", "killed", "aborted"})' = FALSE
      BY <2>3
    <3>2. Framed(down, Reads, parent \in {"data", "killed", "aborted"})'
      BY <1>6, <3>1
    <3> QED BY <1>6, <2>3, <3>2 DEF DownFrame
  <2>8. \A x : /\ HasHeader(up, x)' <=> HasHeader(up, x) /\ x # h
               /\ Busy(x)' <=> x = h
    BY <1>4, <1>8, <2>2, <2>3 DEF Busy
  <2>9. HasHeader(up, h)
    BY <1>2, <1>3, <2>2 DEF HasHeader
  <2>10. OnePlace'
    BY <1>1, <1>5, <1>6, <2>8, <2>9 DEF Inv, OnePlace, Once, IsHeader
  <2>11. SomePlace'
    BY <1>1, <1>6, <1>7, <2>8 DEF Inv, SomePlace
  <2>12. Current' /\ InFrame' /\ Control' /\ Ending'
    BY <1>1, <1>6, <2>1, <2>2, <2>3, NbdAssumption
     DEF Inv, Current, InFrame, Control, Ending, Ended, Writes
  <2> QED BY <1>5, <1>6, <2>5, <2>6, <2>7, <2>10, <2>11, <2>12 DEF Inv
<1>11. up[1] = Disc \/ \E h \in 1 .. sent : up[1] = Header(op[h], h)
  BY <1>2, <1>3, UnitFields DEF Inv, UpUnits
<1> QED BY <1>9, <1>10, <1>11

LEMMA ReadPayloadInv == ASSUME Inv, NEW n \in 1 .. PayloadLen, ReadPayload(n) PROVE Inv'
<1> USE DEF startVars, kernelVars, signalVars
<1>1. /\ parent = "payload" /\ n \in 1 .. (PayloadLen - got) /\ n <= Len(up)
      /\ up' = SubSeq(up, n + 1, Len(up)) /\ got' = got + n
      /\ parent' = IF got' = PayloadLen THEN "serve" ELSE "payload"
      /\ UNCHANGED <<down, cur, child, op, sent, answered, confused, asked, handlers,
                     nbd_dev_to_disconnect>>
  BY DEF ReadPayload
<1>2. got \in 0 .. PayloadLen /\ PayloadLen \in Nat /\ n \in Nat /\ Len(up) \in Nat
      /\ up \in Seq(Units) /\ cur \in 1 .. sent /\ cur \in Writes
  BY <1>1, NbdAssumption DEF Inv, Types, TypeOK, Current
<1>3. n \in 0 .. Len(up)
  BY <1>1, <1>2
<1>4. IsCut(up, up', n)
  BY <1>1, <1>2, <1>3, CutSubSeq
<1>5. Skip(up, 0, PayloadLen - got, cur)
  BY <1>1 DEF Inv, UpFrame, Rest
<1>6. \A j \in 1 .. n : ~IsHeader(up[j])
  <2> SUFFICES ASSUME NEW j \in 1 .. n PROVE ~IsHeader(up[j])
    OBVIOUS
  <2>1. j \in 1 .. (PayloadLen - got) /\ 0 + j = j
    BY <1>1, <1>2
  <2>2. up[j] = Data(cur)
    BY <1>5, <2>1 DEF Skip
  <2> QED BY <2>2, UnitFields
<1>7. \A h : HasHeader(up', h) <=> HasHeader(up, h)
  BY <1>2, <1>3, <1>4, <1>6, CutData
<1>8. UpUnits' /\ Framed(up', Writes', FALSE) /\ Once(up')
  BY <1>1, <1>3, <1>4, ReadUnits
<1>9. /\ DownUnits' /\ Reads' = Reads /\ Writes' = Writes /\ Once(down)'
      /\ Skip(down, 0, 0, 0)'
      /\ \A h : HasHeader(down, h)' = HasHeader(down, h)
      /\ Framed(down', Reads', FALSE)
  BY <1>1, DownStays
<1>10. \A h : HasHeader(up, h)' = HasHeader(up', h)
  BY DEF HasHeader, IsHeader
<1>11. UpFrame'
  <2> DEFINE k == PayloadLen - got - n
  <2>1. k \in Nat /\ Rest' = k
    BY <1>1, <1>2 DEF Rest
  <2>2. Skip(up, n, k, cur)
    <3>1. n + k = 0 + (PayloadLen - got) /\ 0 + (PayloadLen - got) = PayloadLen - got
      BY <1>1, <1>2
    <3>2. \A j \in 1 .. k : up[n + j] = Data(cur)
      <4> SUFFICES ASSUME NEW j \in 1 .. k PROVE up[n + j] = Data(cur)
        OBVIOUS
      <4>1. n + j \in 1 .. (PayloadLen - got) /\ 0 + (n + j) = n + j
        BY <1>1, <1>2
      <4> QED BY <1>5, <4>1 DEF Skip
    <3> HIDE DEF k
    <3>3. n + k <= Len(up) /\ (n + k < Len(up) => IsHeader(up[n + k + 1]))
      BY <1>5, <3>1 DEF Skip
    <3> QED BY <3>2, <3>3 DEF Skip
  <2> HIDE DEF k
  <2>3. Skip(up', 0, k, cur)
    BY <1>2, <1>3, <1>4, <2>1, <2>2, CutFrame
  <2>4. Skip(up, 0, Rest, cur)'
    BY <1>1, <2>1, <2>3
  <2> QED BY <1>8, <2>4 DEF UpFrame
<1>12. DownFrame'
  <2>1. (parent \in {"data", "killed", "aborted"})' = FALSE /\ parent' # "data"
    BY <1>1
  <2>2. Framed(down, Reads, parent \in {"data", "killed", "aborted"})'
    BY <1>9, <2>1
  <2> QED BY <1>9, <2>1, <2>2 DEF DownFrame
<1>13. \A h : (HasHeader(up, h)' <=> HasHeader(up, h)) /\ (Busy(h)' <=> Busy(h))
  BY <1>1, <1>7, <1>10 DEF Busy
<1>14. OnePlace' /\ SomePlace'
  BY <1>1, <1>8, <1>9, <1>13 DEF Inv, OnePlace, SomePlace, Once, IsHeader
<1>15. got' \in 0 .. PayloadLen /\ (parent' = "payload" => got' < PayloadLen)
  BY <1>1, <1>2
<1>16. up' \in Seq(Units)
  BY <1>4 DEF IsCut
<1>17. Types'
  BY <1>1, <1>15, <1>16 DEF ReadPayload, Inv, Types, TypeOK
<1>18. Current' /\ InFrame' /\ Control' /\ Ending'
  BY <1>1, <1>9, <1>15 DEF Inv, Current, InFrame, Control, Ending, Ended
<1> QED BY <1>8, <1>9, <1>11, <1>12, <1>14, <1>17, <1>18 DEF Inv

(* When up and the requests stay, so does what is known about up.          *)
LEMMA UpStays ==
  ASSUME Inv, UNCHANGED <<up, op, sent, asked>>
  PROVE  /\ UpUnits' /\ Reads' = Reads /\ Writes' = Writes /\ Once(up)'
         /\ Framed(up, Writes, FALSE)'
         /\ \A h : HasHeader(up, h)' = HasHeader(up, h)
BY DEF Inv, UpUnits, UpFrame, OnePlace, Reads, Writes, Once, Skip, HasHeader, Framed, Follow

LEMMA AnswerInv == ASSUME Inv, Answer PROVE Inv'
<1> USE DEF startVars, kernelVars, signalVars
<1>1. /\ parent = "answer" /\ parent' = IF op[cur] = "read" THEN "data" ELSE "loop"
      /\ down' = Append(down, Header("reply", cur))
      /\ UNCHANGED <<up, cur, got, child, op, sent, answered, confused, asked, handlers,
                     nbd_dev_to_disconnect, main, tcp, mkfs, device, short, sock, wanted>>
  BY DEF Answer, Parent
<1> DEFINE u == Header("reply", cur)
<1>2. /\ cur \in 1 .. sent /\ sent \in 0 .. MaxRequests /\ down \in Seq(Units)
      /\ Framed(down, Reads, FALSE) /\ Skip(down, 0, 0, 0) /\ Once(down)
  <2>1. (parent \in {"data", "killed", "aborted"}) = FALSE
    BY <1>1
  <2>2. Framed(down, Reads, FALSE)
    BY <2>1 DEF Inv, DownFrame
  <2> QED BY <1>1, <2>2 DEF Inv, Types, TypeOK, Current, DownFrame, OnePlace
<1>3. cur \in 0 .. MaxRequests /\ cur \in Handles
  BY <1>2, NbdAssumption DEF Handles
<1>4. /\ u \in Units /\ IsHeader(u) /\ u.handle = cur
  BY <1>3, UnitTypes, UnitFields
<1>5. IsLonger(down, down', u, 0)
  BY <1>1, <1>2, <1>4, LongerAppend
<1>6. Busy(cur) /\ ~HasHeader(down, cur)
  BY <1>1, <1>2 DEF Busy, Inv, OnePlace
<1>7. /\ Skip(down', 0, 0, 0)
      /\ \A h : HasHeader(down', h) <=> HasHeader(down, h) \/ h = cur
      /\ Once(down')
  <2>1. 0 \in 0 .. Len(down)
    BY <1>2
  <2> HIDE DEF u
  <2> QED BY <1>2, <1>4, <1>5, <1>6, <2>1, LongerFrame
<1>8. /\ Framed(down', Reads, TRUE)
      /\ cur \notin Reads => Framed(down', Reads, FALSE)
  <2>1. cur \notin Reads => Follow(Reads, cur) = 0
    BY DEF Follow
  <2> HIDE DEF u
  <2> QED BY <1>2, <1>4, <1>5, <2>1, LongerFrame
<1>9. /\ UpUnits' /\ Reads' = Reads /\ Writes' = Writes /\ Once(up)'
      /\ Framed(up, Writes, FALSE)'
      /\ \A h : HasHeader(up, h)' = HasHeader(up, h)
  BY <1>1, UpStays
<1>10. \A h : HasHeader(down, h)' = HasHeader(down', h)
  BY DEF HasHeader, IsHeader
<1>11. UpFrame'
  <2>1. Rest = 0 /\ Rest' = 0 /\ parent \notin {"killed", "aborted"}
    BY <1>1 DEF Rest
  <2>2. Skip(up, 0, 0, cur)
    BY <2>1 DEF Inv, UpFrame
  <2>3. Skip(up', 0, 0, cur')
    BY <1>1, <2>2
  <2>4. Skip(up, 0, Rest, cur)'
    BY <2>1, <2>3
  <2> QED BY <1>9, <2>4 DEF UpFrame
<1>12. down' \in Seq(Units) /\ Len(down') = Len(down) + 1 /\ Len(down) \in Nat /\ down' # <<>>
       /\ down'[Len(down')] = u /\ DOMAIN down' = 1 .. Len(down) + 1
       /\ \A n \in 1 .. Len(down) : down'[n] = down[n]
  BY <1>1, <1>2, <1>4
<1>13. DownUnits'
  <2> SUFFICES ASSUME NEW n \in DOMAIN down'
               PROVE  \E h \in 1 .. sent : down'[n] = Header("reply", h) \/ down'[n] = Data(h)
    BY <1>1 DEF DownUnits, Header, Data
  <2>1. CASE n \in 1 .. Len(down)
    BY <1>2, <1>12, <2>1 DEF Inv, DownUnits
  <2>2. CASE n = Len(down) + 1
    BY <1>2, <1>12, <2>2
  <2> QED BY <1>12, <2>1, <2>2
<1>14. DownFrame'
  <2>1. CASE cur \in Reads
    <3>1. parent' = "data" /\ (parent \in {"data", "killed", "aborted"})' = TRUE
      BY <1>1, <2>1 DEF Reads
    <3>2. Framed(down, Reads, parent \in {"data", "killed", "aborted"})'
      BY <1>8, <1>9, <3>1
    <3>3. down'[Len(down')] = Header("reply", cur)'
      BY <1>1, <1>12 DEF Header
    <3> QED BY <1>1, <1>7, <1>9, <1>12, <2>1, <3>2, <3>3 DEF DownFrame
  <2>2. CASE cur \notin Reads
    <3>1. parent' = "loop" /\ (parent \in {"data", "killed", "aborted"})' = FALSE
      BY <1>1, <1>3, <2>2 DEF Reads
    <3>2. Framed(down, Reads, parent \in {"data", "killed", "aborted"})'
      BY <1>8, <1>9, <2>2, <3>1
    <3> QED BY <1>7, <3>1, <3>2 DEF DownFrame
  <2> QED BY <2>1, <2>2
<1>15. \A h : /\ HasHeader(down, h)' <=> HasHeader(down, h) \/ h = cur
              /\ Busy(h) <=> h = cur
              /\ ~Busy(h)'
  BY <1>1, <1>7, <1>10 DEF Busy
<1>16. OnePlace'
  BY <1>1, <1>7, <1>9, <1>15 DEF Inv, OnePlace, Once, IsHeader
<1>17. SomePlace'
  BY <1>1, <1>9, <1>15 DEF Inv, SomePlace
<1>18. Types'
  BY <1>1, <1>12 DEF Inv, Types, TypeOK
<1>19. Current' /\ InFrame' /\ Control' /\ Ending'
  BY <1>1, <1>2, <1>9 DEF Inv, Current, InFrame, Control, Ending, Ended
<1> QED BY <1>9, <1>11, <1>13, <1>14, <1>16, <1>17, <1>18, <1>19 DEF Inv

LEMMA AnswerDataInv == ASSUME Inv, AnswerData PROVE Inv'
<1> USE DEF startVars, kernelVars, signalVars
<1>1. /\ parent = "data" /\ parent' = "loop" /\ down' = down \o Payload(cur)
      /\ UNCHANGED <<up, cur, got, child, op, sent, answered, confused, asked, handlers,
                     nbd_dev_to_disconnect, main, tcp, mkfs, device, short, sock, wanted>>
  BY DEF AnswerData, Parent
<1>2. /\ cur \in 1 .. sent /\ sent \in 0 .. MaxRequests /\ down \in Seq(Units) /\ down # <<>>
      /\ Skip(down, 0, 0, 0) /\ Once(down) /\ cur \in Reads
      /\ down[Len(down)] = Header("reply", cur)
  BY <1>1 DEF Inv, Types, TypeOK, Current, DownFrame, OnePlace
<1>3. cur \in 0 .. MaxRequests
  BY <1>2, NbdAssumption
<1>4. Framed(down, Reads, TRUE)
  <2>1. (parent \in {"data", "killed", "aborted"}) = TRUE
    BY <1>1
  <2> QED BY <2>1 DEF Inv, DownFrame
<1>5. /\ down' \in Seq(Units) /\ Framed(down', Reads, FALSE) /\ Skip(down', 0, 0, 0)
      /\ \A x : HasHeader(down', x) <=> HasHeader(down, x)
      /\ Once(down')
      /\ \A n \in DOMAIN down' : down'[n] = Data(cur) \/ (n \in DOMAIN down /\ down'[n] = down[n])
  <2>1. IsHeader(down[Len(down)]) /\ down[Len(down)].handle = cur
    BY <1>2, UnitFields
  <2> QED BY <1>1, <1>2, <1>3, <1>4, <2>1, CloseFrame
<1>6. /\ UpUnits' /\ Reads' = Reads /\ Writes' = Writes /\ Once(up)'
      /\ Framed(up, Writes, FALSE)'
      /\ \A h : HasHeader(up, h)' = HasHeader(up, h)
  BY <1>1, UpStays
<1>7. \A h : HasHeader(down, h)' = HasHeader(down', h)
  BY DEF HasHeader, IsHeader
<1>8. UpFrame'
  <2>1. Rest = 0 /\ Rest' = 0 /\ parent \notin {"killed", "aborted"}
    BY <1>1 DEF Rest
  <2>2. Skip(up, 0, 0, cur)
    BY <2>1 DEF Inv, UpFrame
  <2>3. Skip(up', 0, 0, cur')
    BY <1>1, <2>2
  <2>4. Skip(up, 0, Rest, cur)'
    BY <2>1, <2>3
  <2> QED BY <1>6, <2>4 DEF UpFrame
<1>9. DownUnits'
  <2> SUFFICES ASSUME NEW n \in DOMAIN down'
               PROVE  \E h \in 1 .. sent : down'[n] = Header("reply", h) \/ down'[n] = Data(h)
    BY <1>1 DEF DownUnits, Header, Data
  <2> QED BY <1>2, <1>5 DEF Inv, DownUnits
<1>10. DownFrame'
  <2>1. (parent \in {"data", "killed", "aborted"})' = FALSE
    BY <1>1
  <2>2. Framed(down, Reads, parent \in {"data", "killed", "aborted"})'
    BY <1>5, <1>6, <2>1
  <2> QED BY <1>1, <1>5, <2>2 DEF DownFrame
<1>11. \A h : (HasHeader(down, h)' <=> HasHeader(down, h)) /\ ~Busy(h) /\ ~Busy(h)'
  BY <1>1, <1>5, <1>7 DEF Busy
<1>12. OnePlace'
  BY <1>1, <1>5, <1>6, <1>11 DEF Inv, OnePlace, Once, IsHeader
<1>13. SomePlace'
  BY <1>1, <1>6, <1>11 DEF Inv, SomePlace
<1>14. Types'
  BY <1>1, <1>5 DEF Inv, Types, TypeOK
<1>15. Current' /\ InFrame' /\ Control' /\ Ending'
  BY <1>1, <1>2, <1>6 DEF Inv, Current, InFrame, Control, Ending, Ended
<1> QED BY <1>6, <1>8, <1>9, <1>10, <1>12, <1>13, <1>14, <1>15 DEF Inv

LEMMA ReceiveInv == ASSUME Inv, Receive PROVE Inv'
<1> USE DEF startVars, kernelVars, signalVars
<1> DEFINE r == Head(down)
           size == IF op[r.handle] = "read" THEN PayloadLen + 1 ELSE 1
<1>1. /\ down # <<>> /\ Len(down) >= size
      /\ confused' = ~(r.kind = "header" /\ r.handle \notin answered)
      /\ down' = SubSeq(down, size + 1, Len(down))
      /\ answered' = answered \cup {r.handle}
      /\ UNCHANGED <<up, cur, got, parent, child, op, sent, asked, handlers,
                     nbd_dev_to_disconnect, main, tcp, mkfs, device, short, sock, wanted>>
  BY DEF Receive
<1>2. /\ down \in Seq(Units) /\ r = down[1] /\ 1 \in DOMAIN down /\ IsHeader(down[1])
      /\ Len(down) \in Nat /\ Once(down)
  <2>1. down \in Seq(Units) /\ Skip(down, 0, 0, 0)
    BY DEF Inv, Types, DownFrame
  <2> QED BY <1>1, <2>1 DEF Skip, Inv, OnePlace
<1>3. PICK h \in 1 .. sent : down[1] = Header("reply", h)
  BY <1>2, UnitFields DEF Inv, DownUnits
<1>4. /\ r.kind = "header" /\ r.handle = h /\ down[1].handle = h
      /\ h \in Handles /\ PayloadLen \in Nat \ {0}
  <2>1. sent \in 0 .. MaxRequests
    BY DEF Inv, Types, TypeOK
  <2> QED BY <1>2, <1>3, <2>1, UnitFields, NbdAssumption DEF Handles
<1>5. size = 1 + Follow(Reads, h) /\ Follow(Reads, h) \in Nat /\ size \in 1 .. Len(down)
      /\ size \in 0 .. Len(down)
  BY <1>1, <1>2, <1>4 DEF Follow, Reads
<1> DEFINE f == Follow(Reads, h)
<1>6. r.handle = h /\ size = 1 + f
  BY <1>4, <1>5
<1> HIDE DEF size, r, f
<1>7. f \in Nat /\ size \in Nat /\ size \in 1 .. Len(down) /\ size \in 0 .. Len(down)
  BY <1>2, <1>5 DEF f
<1>8. Skip(down, 1, f, h)
  <2>1. CASE Len(down) = 1
    <3>1. f = 0 /\ 1 .. f = {} /\ 1 + f = 1
      BY <1>6, <1>7, <2>1
    <3> QED BY <2>1, <3>1 DEF Skip
  <2>2. CASE Len(down) # 1
    <3>1. Skip(down, 1, Follow(Reads, down[1].handle), down[1].handle)
      BY <1>2, <2>2 DEF Inv, DownFrame, Framed
    <3> QED BY <1>4, <3>1 DEF f
  <2> QED BY <2>1, <2>2
<1>9. IsCut(down, down', size)
  BY <1>1, <1>2, <1>7, CutSubSeq
<1>10. \A j \in 2 .. size : down[j] = Data(h) /\ ~IsHeader(down[j])
  <2> SUFFICES ASSUME NEW j \in 2 .. size PROVE down[j] = Data(h)
    BY UnitFields
  <2>1. j - 1 \in 1 .. f /\ 1 + (j - 1) = j
    BY <1>6, <1>7
  <2> QED BY <1>8, <2>1 DEF Skip
<1>11. \A x : HasHeader(down', x) <=> HasHeader(down, x) /\ x # h
  BY <1>2, <1>4, <1>7, <1>9, <1>10, CutHeader
<1>12. Skip(down, size, 0, 0)
  <2>1. size + 0 = 1 + f
    BY <1>6, <1>7
  <2> QED BY <1>8, <2>1 DEF Skip
<1>13. Skip(down', 0, 0, 0) /\ Once(down') /\ Framed(down', Reads, parent \in {"data", "killed", "aborted"})
  <2>1. Framed(down, Reads, parent \in {"data", "killed", "aborted"})
    BY DEF Inv, DownFrame
  <2> QED BY <1>2, <1>7, <1>9, <1>12, <2>1, CutFrame
<1>14. /\ UpUnits' /\ Reads' = Reads /\ Writes' = Writes /\ Once(up)'
       /\ Framed(up, Writes, FALSE)'
       /\ \A x : HasHeader(up, x)' = HasHeader(up, x)
  BY <1>1, UpStays
<1>15. \A x : HasHeader(down, x)' = HasHeader(down', x)
  BY DEF HasHeader, IsHeader
<1>16. UpFrame'
  BY <1>1, <1>14 DEF Inv, UpFrame, Skip, Rest
<1>17. /\ down' \in Seq(Units) /\ Len(down') = Len(down) - size /\ Len(down') \in Nat
       /\ DOMAIN down' = 1 .. Len(down') /\ DOMAIN down = 1 .. Len(down)
       /\ \A i \in 1 .. Len(down') : down'[i] = down[size + i] /\ size + i \in 1 .. Len(down)
  BY <1>2, <1>7, <1>9 DEF IsCut
<1>18. DownUnits'
  <2> SUFFICES ASSUME NEW n \in DOMAIN down'
               PROVE  \E x \in 1 .. sent : down'[n] = Header("reply", x) \/ down'[n] = Data(x)
    BY <1>1 DEF DownUnits, Header, Data
  <2> QED BY <1>17 DEF Inv, DownUnits
<1>19. DownFrame'
  <2>1. Framed(down, Reads, parent \in {"data", "killed", "aborted"})'
    BY <1>1, <1>13, <1>14
  <2>2. ASSUME parent = "data"
        PROVE  down' # <<>> /\ down'[Len(down')] = Header("reply", cur) /\ cur \in Reads
    <3>1. down[Len(down)] = Header("reply", cur) /\ cur \in Reads /\ IsHeader(down[Len(down)])
      BY <2>2, UnitFields DEF Inv, DownFrame
    <3>2. Len(down) # size
      <4> SUFFICES ASSUME Len(down) = size PROVE FALSE
        OBVIOUS
      <4>1. size = 1
        BY <1>7, <1>10, <3>1
      <4>2. h = cur /\ f = 0
        BY <1>2, <1>4, <1>6, <1>7, <3>1, <4>1, UnitFields
      <4> QED BY <1>4, <3>1, <4>2 DEF f, Follow
    <3>3. Len(down') \in 1 .. Len(down') /\ size + Len(down') = Len(down)
      BY <1>2, <1>7, <1>17, <3>2
    <3> QED BY <1>17, <3>1, <3>3
  <2>3. parent' = "data" => down' # <<>> /\ down'[Len(down')] = Header("reply", cur)'
                            /\ (cur \in Reads)'
    BY <1>1, <1>14, <2>2 DEF Header
  <2> QED BY <1>13, <2>1, <2>3 DEF DownFrame
<1>20. \A x : /\ HasHeader(down, x)' <=> HasHeader(down, x) /\ x # h
              /\ Busy(x)' <=> Busy(x)
              /\ x \in answered' <=> x \in answered \/ x = h
  BY <1>1, <1>6, <1>11, <1>15 DEF Busy
<1>21. HasHeader(down, h) /\ h \notin answered
  <2>1. HasHeader(down, h)
    BY <1>2, <1>4 DEF HasHeader
  <2> QED BY <2>1 DEF Inv, OnePlace
<1>22. OnePlace'
  BY <1>1, <1>13, <1>14, <1>20, <1>21 DEF Inv, OnePlace, Once, IsHeader
<1>23. SomePlace' /\ Ending'
  BY <1>1, <1>14, <1>20 DEF Inv, SomePlace, Ending, Ended, ChildEnded
<1>24. confused' = FALSE
  BY <1>1, <1>4, <1>21
<1>25. Types'
  BY <1>1, <1>6, <1>17, <1>24 DEF Inv, Types, TypeOK
<1>26. Current' /\ InFrame' /\ Control'
  BY <1>1, <1>14, <1>24 DEF Inv, Current, InFrame, Control
<1> QED BY <1>14, <1>16, <1>18, <1>19, <1>22, <1>23, <1>25, <1>26 DEF Inv

(* What the kernel adds behind everything that it has sent.                *)
LEMMA UpLonger ==
  ASSUME Inv, NEW u \in Units, NEW k \in Nat, IsLonger(up, up', u, k), IsHeader(u),
         ~HasHeader(up, u.handle), k = Follow(Writes', u.handle),
         \A n \in DOMAIN up : up[n].handle \in Writes <=> up[n].handle \in Writes',
         UNCHANGED <<parent, cur, got>>
  PROVE  /\ up' \in Seq(Units) /\ UpFrame' /\ Once(up')
         /\ \A h : HasHeader(up, h)' <=> HasHeader(up, h) \/ h = u.handle
<1>1. up \in Seq(Units) /\ Framed(up, Writes, FALSE) /\ Once(up)
  BY DEF Inv, Types, UpFrame, OnePlace
<1>2. Framed(up, Writes', FALSE)
  BY <1>1, FrameSet
<1>3. Framed(up', Writes', FALSE) /\ Once(up')
  <2>1. \A W : Framed(up, W, FALSE) /\ k = Follow(W, u.handle) => Framed(up', W, FALSE)
    BY <1>1, LongerFrame
  <2>2. Once(up')
    BY <1>1, LongerFrame
  <2>3. Follow(Writes', u.handle) = Follow(Writes, u.handle)'
    BY DEF Follow
  <2> QED BY <1>2, <2>1, <2>2
<1>4. \A h : HasHeader(up', h) <=> HasHeader(up, h) \/ h = u.handle
  BY <1>1, LongerFrame
<1>5. \A h : HasHeader(up, h)' = HasHeader(up', h)
  BY DEF HasHeader, IsHeader
<1>6. ASSUME parent \notin {"killed", "aborted"} PROVE Skip(up', 0, Rest, cur)
  <2>1. Skip(up, 0, Rest, cur)
    BY <1>6 DEF Inv, UpFrame
  <2>2. Rest \in Nat /\ 0 \in 0 .. Len(up)
    BY <1>1, NbdAssumption DEF Rest, Inv, Types, TypeOK
  <2> QED BY <1>1, <2>1, <2>2, LongerFrame
<1>7. parent' \notin {"killed", "aborted"} => Skip(up, 0, Rest, cur)'
  <2>1. Rest' = Rest
    BY DEF Rest
  <2> QED BY <1>6, <2>1
<1>8. up' \in Seq(Units)
  BY DEF IsLonger
<1> QED BY <1>3, <1>4, <1>5, <1>7, <1>8 DEF UpFrame

LEMMA SubmitInv == ASSUME Inv, NEW o \in Ops, Submit(o) PROVE Inv'
<1> USE DEF startVars, kernelVars, signalVars
<1> DEFINE h == sent + 1
           u == Header(o, h)
<1>1. /\ child = "doit" /\ ~asked /\ sent < MaxRequests
      /\ up' = Append(up, u) \o (IF o = "write" THEN Payload(h) ELSE <<>>)
      /\ op' = [op EXCEPT ![h] = o] /\ sent' = h
      /\ UNCHANGED <<down, cur, got, parent, child, answered, confused, asked, handlers,
                     nbd_dev_to_disconnect, main, tcp, mkfs, device, short, sock, wanted>>
  BY DEF Submit
<1>2. /\ sent \in 0 .. MaxRequests /\ h \in Handles /\ h \in 0 .. MaxRequests /\ h \notin 1 .. sent
      /\ op \in [Handles -> Ops \cup {"none"}] /\ up \in Seq(Units) /\ down \in Seq(Units)
      /\ answered \subseteq 1 .. sent /\ 1 .. sent' = (1 .. sent) \cup {h}
      /\ 1 .. sent \subseteq Handles
  BY <1>1, NbdAssumption DEF Inv, Types, TypeOK, Handles
<1> HIDE DEF h
<1>3. /\ op'[h] = o /\ \A x \in Handles : x # h => op'[x] = op[x]
  BY <1>1, <1>2
<1>4. /\ \A x : x # h => /\ x \in Writes <=> x \in Writes'
                         /\ x \in Reads <=> x \in Reads'
      /\ h \in Writes' <=> o = "write"
  BY <1>2, <1>3 DEF Writes, Reads
<1>5. u \in Units /\ IsHeader(u) /\ u.handle = h
  BY <1>2, UnitTypes, UnitFields
<1>6. \A n \in DOMAIN up : \E x \in 1 .. sent : up[n] = Header(op[x], x) \/ up[n] = Data(x)
  BY <1>1 DEF Inv, UpUnits
<1>7. \A n \in DOMAIN down : \E x \in 1 .. sent : down[n] = Header("reply", x) \/ down[n] = Data(x)
  BY DEF Inv, DownUnits
<1>8. /\ \A n \in DOMAIN up : up[n].handle \in 1 .. sent
      /\ \A n \in DOMAIN down : down[n].handle \in 1 .. sent
  BY <1>6, <1>7, UnitFields
<1>9. ~HasHeader(up, h) /\ ~HasHeader(down, h) /\ h \notin answered
  BY <1>2, <1>8 DEF HasHeader
<1>10. ~Busy(h) /\ ~Ended
  BY <1>1, <1>2 DEF Busy, Inv, Current, Ending, ChildEnded
<1> DEFINE k == IF o = "write" THEN PayloadLen ELSE 0
<1>11. IsLonger(up, up', u, k) /\ k \in Nat
  <2>1. CASE o = "write"
    BY <1>1, <1>2, <1>5, <2>1, LongerPayload, NbdAssumption
  <2>2. CASE o # "write"
    <3>1. up' = Append(up, u)
      BY <1>1, <1>2, <1>5, <2>2
    <3> QED BY <1>2, <1>5, <2>2, <3>1, LongerAppend
  <2> QED BY <2>1, <2>2
<1>12. k = Follow(Writes', h)
  BY <1>4 DEF Follow
<1> HIDE DEF u, k
<1>13. \A n \in DOMAIN up : up[n].handle \in Writes <=> up[n].handle \in Writes'
  BY <1>2, <1>4, <1>8
<1>14. /\ up' \in Seq(Units) /\ UpFrame' /\ Once(up')
       /\ \A x : HasHeader(up, x)' <=> HasHeader(up, x) \/ x = h
  BY <1>1, <1>5, <1>9, <1>11, <1>12, <1>13, UpLonger
<1>15. UpUnits'
  <2> SUFFICES ASSUME NEW n \in DOMAIN up'
               PROVE  \E x \in 1 .. sent' : up'[n] = Header(op'[x], x) \/ up'[n] = Data(x)
    BY DEF UpUnits, Header, Data
  <2>1. /\ Len(up') = Len(up) + 1 + k /\ DOMAIN up' = 1 .. Len(up') /\ Len(up) \in Nat
        /\ DOMAIN up = 1 .. Len(up)
        /\ \A i \in 1 .. Len(up) : up'[i] = up[i]
        /\ up'[Len(up) + 1] = u /\ \A j \in 1 .. k : up'[Len(up) + 1 + j] = Data(h)
    BY <1>2, <1>5, <1>11 DEF IsLonger
  <2>2. CASE n \in 1 .. Len(up)
    <3>1. PICK x \in 1 .. sent : up[n] = Header(op[x], x) \/ up[n] = Data(x)
      BY <1>6, <2>1, <2>2
    <3>2. op'[x] = op[x] /\ x \in 1 .. sent'
      BY <1>2, <1>3
    <3> QED BY <2>1, <2>2, <3>1, <3>2
  <2>3. CASE n = Len(up) + 1
    BY <1>2, <1>3, <2>1, <2>3 DEF u
  <2>4. CASE n \in Len(up) + 2 .. Len(up')
    <3>1. n - (Len(up) + 1) \in 1 .. k /\ Len(up) + 1 + (n - (Len(up) + 1)) = n
      BY <1>11, <2>1, <2>4
    <3>2. up'[n] = Data(h)
      BY <2>1, <3>1
    <3> QED BY <1>2, <3>2
  <2> QED BY <1>11, <2>1, <2>2, <2>3, <2>4
<1>16. DownUnits'
  <2> SUFFICES ASSUME NEW n \in DOMAIN down'
               PROVE  \E x \in 1 .. sent' : down'[n] = Header("reply", x) \/ down'[n] = Data(x)
    BY DEF DownUnits, Header, Data
  <2> QED BY <1>1, <1>2, <1>7
<1>17. DownFrame'
  <2>1. \A n \in DOMAIN down : down[n].handle \in Reads <=> down[n].handle \in Reads'
    BY <1>2, <1>4, <1>8
  <2>2. Framed(down, Reads', parent \in {"data", "killed", "aborted"})
    BY <2>1, FrameSet DEF Inv, DownFrame
  <2>3. Framed(down, Reads, parent \in {"data", "killed", "aborted"})'
    BY <1>1, <2>2
  <2>4. Skip(down, 0, 0, 0)'
    BY <1>1 DEF Inv, DownFrame, Skip
  <2>5. parent = "data" => cur \in Reads'
    BY <1>2, <1>4, <1>9, <1>10 DEF Inv, DownFrame, Current
  <2>6. parent' = "data" => /\ down' # <<>> /\ down'[Len(down')] = Header("reply", cur)'
                            /\ (cur \in Reads)'
    BY <1>1, <2>5 DEF Header, Inv, DownFrame
  <2> QED BY <2>3, <2>4, <2>6 DEF DownFrame
<1>18. \A x : /\ HasHeader(down, x)' = HasHeader(down, x)
              /\ Busy(x)' <=> Busy(x)
              /\ Once(down)' = Once(down)
  BY <1>1 DEF HasHeader, Busy, Once
<1>19. OnePlace'
  BY <1>1, <1>2, <1>9, <1>10, <1>14, <1>18 DEF Inv, OnePlace, Once, IsHeader
<1>20. SomePlace'
  BY <1>1, <1>2, <1>14, <1>18 DEF Inv, SomePlace
<1>21. Types'
  <2>1. op' \in [Handles -> Ops \cup {"none"}]
    BY <1>1, <1>2
  <2>2. sent' \in 0 .. MaxRequests /\ answered' \subseteq 1 .. sent'
    BY <1>1, <1>2
  <2> QED BY <1>1, <1>14, <2>1, <2>2 DEF Inv, Types, TypeOK
<1>22. Current'
  <2>1. \A x \in 1 .. sent' : op'[x] \in Ops
    BY <1>2, <1>3 DEF Inv, Current
  <2>2. \A x \in 1 .. sent : x \in Writes => x \in Writes'
    BY <1>2, <1>4
  <2> QED BY <1>1, <1>2, <2>1, <2>2 DEF Inv, Current
<1>23. InFrame' /\ Control' /\ Ending'
  BY <1>1, <1>10 DEF Inv, InFrame, Control, Ending, Ended
<1> QED BY <1>14, <1>15, <1>16, <1>17, <1>19, <1>20, <1>21, <1>22, <1>23 DEF Inv

LEMMA SignalInv == ASSUME Inv, Signal PROVE Inv'
<1> USE DEF startVars, kernelVars, signalVars
<1>1. CASE UNCHANGED up
  BY <1>1, QuietInv
<1>2. CASE /\ nbd_dev_to_disconnect /\ sock /\ nbd_dev_to_disconnect' = FALSE
           /\ up' = Append(up, Disc) /\ asked' = TRUE
  <2>1. /\ handlers /\ UNCHANGED <<down, cur, got, parent, child, op, sent, answered, confused,
                                   handlers, main, tcp, mkfs, device, short, sock>>
        /\ wanted' = (wanted \/ sock)
    BY DEF Signal
  <2>2. ~asked /\ up \in Seq(Units) /\ sent \in 0 .. MaxRequests
    BY <1>2 DEF Inv, Control, Types, TypeOK
  <2>3. \A n \in DOMAIN up : \E x \in 1 .. sent : up[n] = Header(op[x], x) \/ up[n] = Data(x)
    BY <2>2 DEF Inv, UpUnits
  <2>4. \A n \in DOMAIN up : up[n].handle \in 1 .. sent
    BY <2>3, UnitFields
  <2>5. Disc \in Units /\ IsHeader(Disc) /\ Disc.handle = 0 /\ 0 \notin 1 .. sent
    BY <2>2, UnitTypes, UnitFields
  <2>6. ~HasHeader(up, 0)
    BY <2>4, <2>5 DEF HasHeader
  <2>7. /\ DownUnits' /\ Reads' = Reads /\ Writes' = Writes /\ Once(down)'
        /\ Skip(down, 0, 0, 0)'
        /\ \A h : HasHeader(down, h)' = HasHeader(down, h)
    BY <2>1, DownStays
  <2>8. 0 = Follow(Writes', 0)
    BY <2>7 DEF Follow, Writes, Handles
  <2>9. IsLonger(up, up', Disc, 0)
    BY <1>2, <2>2, <2>5, LongerAppend
  <2>10. /\ up' \in Seq(Units) /\ UpFrame' /\ Once(up')
         /\ \A x : HasHeader(up, x)' <=> HasHeader(up, x) \/ x = 0
    BY <2>1, <2>5, <2>6, <2>7, <2>8, <2>9, UpLonger
  <2>11. UpUnits'
    <3> SUFFICES ASSUME NEW n \in DOMAIN up'
                 PROVE  \/ up'[n] = Disc /\ n = Len(up') /\ asked'
                        \/ \E x \in 1 .. sent' : up'[n] = Header(op'[x], x) \/ up'[n] = Data(x)
      BY DEF UpUnits, Header, Data, Disc
    <3>1. /\ DOMAIN up' = 1 .. Len(up) + 1 /\ Len(up') = Len(up) + 1 /\ Len(up) \in Nat
          /\ DOMAIN up = 1 .. Len(up) /\ up'[Len(up) + 1] = Disc
          /\ \A i \in 1 .. Len(up) : up'[i] = up[i]
      BY <1>2, <2>2, <2>5
    <3>2. CASE n \in 1 .. Len(up)
      BY <2>1, <2>3, <3>1, <3>2
    <3>3. CASE n = Len(up) + 1
      BY <1>2, <3>1, <3>3
    <3> QED BY <3>1, <3>2, <3>3
  <2>12. DownFrame'
    BY <2>1, <2>7 DEF Inv, DownFrame, Framed, Skip, Follow
  <2>13. \A x : Busy(x)' <=> Busy(x)
    BY <2>1 DEF Busy
  <2>14. OnePlace'
    BY <2>1, <2>5, <2>7, <2>10, <2>13 DEF Inv, OnePlace, Once, IsHeader
  <2>15. SomePlace'
    BY <2>1, <2>7, <2>10, <2>13 DEF Inv, SomePlace
  <2>16. Types'
    <3>1. TypeOK
      BY DEF Inv, Types
    <3>2. {nbd_dev_to_disconnect', handlers', sock', confused', asked', wanted', short'} \subseteq BOOLEAN
      <4>1. wanted' \in BOOLEAN
        BY <2>1
      <4> QED BY <1>2, <2>1, <3>1, <4>1 DEF TypeOK
    <3>3. TypeOK'
      BY <2>1, <3>1, <3>2 DEF TypeOK
    <3> QED BY <2>1, <2>10, <3>3 DEF Inv, Types
  <2>17. Current' /\ InFrame' /\ Control' /\ Ending'
    BY <1>2, <2>1, <2>7 DEF Inv, Current, InFrame, Control, Ending, Ended
  <2> QED BY <2>7, <2>10, <2>11, <2>12, <2>14, <2>15, <2>16, <2>17 DEF Inv
<1> QED BY <1>1, <1>2 DEF Signal

LEMMA NextInv == Inv /\ [Next]_vars => Inv'
<1> SUFFICES ASSUME Inv, [Next]_vars PROVE Inv'
  OBVIOUS
<1>1. CASE Startup \/ ChildStep \/ EarlySignal \/ UNCHANGED vars
  BY <1>1, QuietInv
<1>2. CASE Server
  <2>1. CASE \/ TCPConnect \/ SetDevice \/ SetHandlers \/ ReadShort \/ Serve \/ EndOfFile \/ Close \/ WaitPid
    BY <2>1, QuietInv
  <2>2. CASE ReadRequest
    BY <2>2, ReadRequestInv
  <2>3. CASE \E n \in 1 .. PayloadLen : ReadPayload(n)
    BY <2>3, ReadPayloadInv
  <2>4. CASE Answer
    BY <2>4, AnswerInv
  <2>5. CASE AnswerData
    BY <2>5, AnswerDataInv
  <2> QED BY <1>2, <2>1, <2>2, <2>3, <2>4, <2>5 DEF Server
<1>3. CASE \E o \in Ops : Submit(o)
  BY <1>3, SubmitInv
<1>4. CASE Receive
  BY <1>4, ReceiveInv
<1>5. CASE Signal
  BY <1>5, SignalInv
<1> QED BY <1>1, <1>2, <1>3, <1>4, <1>5 DEF Next

-----------------------------------------------------------------------------
(* The results                                                             *)

(* Handles, positions and states stay in range: in particular the kernel   *)
(* records an answer only to a request that it has sent, and a payload is  *)
(* never read beyond its end (serve_nbd, read_all).                        *)
THEOREM NbdTypeTheorem == Spec => []TypeOK
<1>1. Inv => TypeOK
  BY DEF Inv, Types
<1> QED BY <1>1, InitInv, NextInv, PTL DEF Spec

(* For any number of requests, any length of the data and any split of the *)
(* payload into reads, serve_nbd finds a request header wherever it looks  *)
(* for one, as long as no read of a header is short, and the kernel finds  *)
(* a reply to an open request.                                             *)
THEOREM InFrameTheorem == Spec => []InFrame
<1>1. Inv => InFrame
  BY DEF Inv
<1> QED BY <1>1, InitInv, NextInv, PTL DEF Spec

(* Whenever serve_nbd has returned, after a disconnect or the end of the   *)
(* child, every request of the kernel has its reply.                       *)
THEOREM AnsweredTheorem == Spec => []AnsweredBeforeEnd
<1>1. Inv => AnsweredBeforeEnd
  <2> SUFFICES ASSUME Inv, parent \in {"close", "wait", "returned"}, NEW h \in 1 .. sent
               PROVE  h \in Replied
    BY DEF AnsweredBeforeEnd
  <2>1. HasHeader(down, h) \/ h \in answered
    BY DEF Inv, Ending, Ended
  <2> QED BY <2>1 DEF HasHeader, Replied
<1> QED BY <1>1, InitInv, NextInv, PTL DEF Spec
=============================================================================
