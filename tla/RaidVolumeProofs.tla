-------------------------- MODULE RaidVolumeProofs --------------------------
(***************************************************************************)
(* Proofs about the layout of the volume, for every stripe size and all    *)
(* requests up to a stripe long, those that cross a boundary included.     *)
(***************************************************************************)
EXTENDS RaidVolume, TLAPS

(* Raid01::OffsetToProxy, the arithmetic: a volume offset has a stripe     *)
(* number below three and an offset inside the stripe, and the two         *)
(* determine it.                                                           *)
LEMMA DivMod ==
  ASSUME NEW o \in 0 .. (MEMORY - 1)
  PROVE  /\ o \div MINION_SIZE \in 0 .. 2
         /\ o % MINION_SIZE \in 0 .. (MINION_SIZE - 1)
         /\ o = MINION_SIZE * (o \div MINION_SIZE) + (o % MINION_SIZE)
<1> DEFINE q == o \div MINION_SIZE
           r == o % MINION_SIZE
<1>1. /\ MINION_SIZE \in Nat \ {0}
      /\ o \in Nat
      /\ o < 3 * MINION_SIZE
  BY RaidAssumption DEF MEMORY
<1>2. /\ q \in Int
      /\ r \in 0 .. (MINION_SIZE - 1)
      /\ o = MINION_SIZE * q + r
  BY <1>1
<1>3. q >= 0 /\ q < 3
  BY <1>1, <1>2
<1> QED BY <1>2, <1>3

(* The two places of an offset, spelled out.                               *)
LEMMA Places ==
  ASSUME NEW o \in 0 .. (MEMORY - 1)
  PROVE  /\ Original(o).minion = o \div MINION_SIZE
         /\ Original(o).offset = o % MINION_SIZE
         /\ Backup(o).minion = ((o \div MINION_SIZE) + 1) % 3
         /\ Backup(o).offset = (o % MINION_SIZE) + MINION_SIZE
         /\ OffsetToProxy(o)[1] = Original(o)
         /\ OffsetToProxy(o)[2] = Backup(o)
BY DEF OffsetToProxy, Original, Backup, Place

(* What is known of a request.                                             *)
LEMMA RequestType ==
  ASSUME NEW r \in Requests
  PROVE  /\ r.offset \in 0 .. (MEMORY - 1)
         /\ r.size \in 1 .. MaxRequest
         /\ r.offset + r.size <= MEMORY
         /\ MaxRequest \in 1 .. MINION_SIZE
         /\ MINION_SIZE \in Nat \ {0}
         /\ MEMORY \in Nat
BY RaidAssumption, VolumeAssumption DEF Requests, MEMORY

(* The cells a request names in its first stripe, by stripe and offset in  *)
(* the stripe: the translation of the first cell is right for all of them. *)
LEMMA NamedCells ==
  ASSUME NEW r \in Requests, NEW o \in 0 .. (MEMORY - 1)
  PROVE  /\ o \in Named(r)
              <=> /\ o \div MINION_SIZE = r.offset \div MINION_SIZE
                  /\ o % MINION_SIZE \in (r.offset % MINION_SIZE) ..
                                         ((r.offset % MINION_SIZE) + r.size - 1)
         /\ o \div MINION_SIZE = r.offset \div MINION_SIZE
              => o - r.offset = (o % MINION_SIZE) - (r.offset % MINION_SIZE)
<1> DEFINE M == MINION_SIZE
           off == r.offset
           q  == o \div MINION_SIZE
           k  == o % MINION_SIZE
           qr == off \div MINION_SIZE
           kr == off % MINION_SIZE
<1>1. M \in Nat \ {0} /\ off \in 0 .. (MEMORY - 1) /\ r.size \in Nat \ {0}
      /\ MEMORY \in Nat
  BY RequestType
<1>2. q \in 0 .. 2 /\ k \in 0 .. (M - 1) /\ o = M * q + k
  BY DivMod
<1>3. qr \in 0 .. 2 /\ kr \in 0 .. (M - 1) /\ off = M * qr + kr
  BY <1>1, DivMod
<1>4. o \in Named(r) <=> o \in off .. (off + r.size - 1) /\ q = qr
  BY DEF Named
<1> HIDE DEF M, off, q, k, qr, kr
<1>5. ASSUME q = qr PROVE o - off = k - kr
  <2>1. M * q \in Int /\ o = M * q + k /\ off = M * q + kr
    BY <1>1, <1>2, <1>3, <1>5
  <2> QED BY <1>2, <1>3, <2>1
<1>6. ASSUME q = qr
      PROVE  o \in off .. (off + r.size - 1) <=> k \in kr .. (kr + r.size - 1)
  <2>1. o - off = k - kr
    BY <1>5, <1>6
  <2>2. o \in Int /\ off \in Int /\ k \in Int /\ kr \in Int /\ r.size \in Int
    BY <1>1, <1>2, <1>3
  <2> QED BY <2>1, <2>2
<1> QED BY <1>4, <1>5, <1>6 DEF M, off, q, k, qr, kr

(* A file covers at least what GetBinFile has filled.                      *)
LEMMA FileCells ==
  ASSUME NEW f \in BinFile
  PROVE  \A c \in Cells : c \in DOMAIN f /\ f[c] \in Bytes
<1>1. PICK n \in (2 * MINION_SIZE) .. (2 * MINION_SIZE + MaxRequest - 1) :
        f \in [0 .. (n - 1) -> Bytes]
  BY DEF BinFile
<1>2. MINION_SIZE \in Nat /\ MaxRequest \in Nat
  BY RaidAssumption, VolumeAssumption
<1>3. \A c \in Cells : c \in 0 .. (n - 1)
  BY <1>1, <1>2 DEF Cells
<1> QED BY <1>1, <1>3

(* What one seekp + write inside the filled part does to a file.           *)
LEMMA StoreFile ==
  ASSUME NEW f \in BinFile, NEW off \in Cells,
         NEW size \in 1 .. MaxRequest, NEW data \in [0 .. (size - 1) -> Bytes]
  PROVE  [c \in (DOMAIN f) \cup (off .. (off + size - 1)) |->
            IF c \in off .. (off + size - 1) THEN data[c - off] ELSE f[c]] \in BinFile
<1> DEFINE S == off .. (off + size - 1)
           top == 2 * MINION_SIZE + MaxRequest - 1
           g == [c \in (DOMAIN f) \cup S |-> IF c \in S THEN data[c - off] ELSE f[c]]
<1>1. MINION_SIZE \in Nat /\ MaxRequest \in Nat
  BY RaidAssumption, VolumeAssumption
<1>2. PICK n \in (2 * MINION_SIZE) .. top : f \in [0 .. (n - 1) -> Bytes]
  BY DEF BinFile
<1>3. off \in 0 .. (2 * MINION_SIZE - 1) /\ size \in 1 .. MaxRequest
  BY DEF Cells
<1>4. PICK k \in (2 * MINION_SIZE) .. top : (0 .. (n - 1)) \cup S = 0 .. (k - 1)
  <2>1. CASE off + size <= n
    <3>1. (0 .. (n - 1)) \cup S = 0 .. (n - 1)
      BY <1>1, <1>2, <1>3, <2>1
    <3> QED BY <3>1
  <2>2. CASE off + size > n
    <3>1. off + size \in (2 * MINION_SIZE) .. top
      BY <1>1, <1>2, <1>3, <2>2
    <3>2. (0 .. (n - 1)) \cup S = 0 .. ((off + size) - 1)
      BY <1>1, <1>2, <1>3, <2>2
    <3> QED BY <3>1, <3>2
  <2> QED BY <1>1, <1>2, <1>3, <2>1, <2>2
<1>5. \A c \in S : data[c - off] \in Bytes
  <2> SUFFICES ASSUME NEW c \in S PROVE data[c - off] \in Bytes
    OBVIOUS
  <2>1. c - off \in 0 .. (size - 1)
    BY <1>1, <1>3
  <2> QED BY <2>1
<1>6. DOMAIN f = 0 .. (n - 1) /\ \A c \in DOMAIN f : f[c] \in Bytes
  BY <1>2
<1>7. g \in [(DOMAIN f) \cup S -> Bytes]
  BY <1>5, <1>6
<1>8. g \in [0 .. (k - 1) -> Bytes]
  BY <1>4, <1>6, <1>7
<1> QED BY <1>4, <1>8 DEF BinFile

(* The same for the files of all minions.                                  *)
LEMMA StoreType ==
  ASSUME NEW fs \in [Minions -> BinFile],
         NEW place \in [minion : Minions, offset : Cells],
         NEW size \in 1 .. MaxRequest, NEW data \in [0 .. (size - 1) -> Bytes]
  PROVE  Store(fs, place, size, data) \in [Minions -> BinFile]
<1> DEFINE f == fs[place.minion]
           S == Span(place, size)
           g == [c \in (DOMAIN f) \cup S |->
                   IF c \in S THEN data[c - place.offset] ELSE f[c]]
<1>1. f \in BinFile /\ place.offset \in Cells /\ place.minion \in Minions
  OBVIOUS
<1>2. g \in BinFile
  BY <1>1, StoreFile DEF Span
<1>3. Store(fs, place, size, data) = [fs EXCEPT ![place.minion] = g]
  BY DEF Store
<1> QED BY <1>2, <1>3

(* The cells of the files after one seekp + write.                         *)
LEMMA StoreCell ==
  ASSUME NEW fs \in [Minions -> BinFile],
         NEW place \in [minion : Minions, offset : Cells],
         NEW size \in 1 .. MaxRequest, NEW data,
         NEW m \in Minions, NEW c \in Cells
  PROVE  Store(fs, place, size, data)[m][c] =
           IF m = place.minion /\ c \in Span(place, size)
           THEN data[c - place.offset] ELSE fs[m][c]
<1> DEFINE f == fs[place.minion]
           S == Span(place, size)
           g == [x \in (DOMAIN f) \cup S |->
                   IF x \in S THEN data[x - place.offset] ELSE f[x]]
<1>1. f \in BinFile /\ place.minion \in Minions
  OBVIOUS
<1>2. Store(fs, place, size, data) = [fs EXCEPT ![place.minion] = g]
  BY DEF Store
<1>3. g[c] = IF c \in S THEN data[c - place.offset] ELSE f[c]
  BY <1>1, FileCells
<1> HIDE DEF g
<1>4. CASE m = place.minion
  BY <1>2, <1>3, <1>4
<1>5. CASE m # place.minion
  BY <1>2, <1>5
<1> QED BY <1>4, <1>5

(* The places of an offset are places of the filled part of the files.     *)
LEMMA PlacesType ==
  ASSUME NEW o \in 0 .. (MEMORY - 1)
  PROVE  /\ Original(o) \in [minion : Minions, offset : Cells]
         /\ Backup(o) \in [minion : Minions, offset : Cells]
         /\ Original(o).offset < MINION_SIZE
<1> DEFINE q == o \div MINION_SIZE
           k == o % MINION_SIZE
<1>1. q \in 0 .. 2 /\ k \in 0 .. (MINION_SIZE - 1)
  BY DivMod
<1>2. /\ Original(o) = [minion |-> q, offset |-> k]
      /\ Backup(o) = [minion |-> (q + 1) % 3, offset |-> k + MINION_SIZE]
  BY DEF Original, Backup, OffsetToProxy, Place
<1> HIDE DEF q, k
<1>3. MINION_SIZE \in Nat \ {0}
  BY RaidAssumption
<1>4. (q + 1) % 3 \in 0 .. 2
  BY <1>1
<1> QED BY <1>1, <1>2, <1>3, <1>4 DEF Minions, Cells

(* The effect of WriteCommand on the volume: both copies of a cell that    *)
(* the request names in its first stripe get the new data, the backups     *)
(* that it hits get some of the data, no other copy changes.               *)
LEMMA WriteEffect ==
  ASSUME TypeOK, NEW r \in Requests,
         NEW data \in [0 .. (r.size - 1) -> Bytes], WriteCommand(r, data),
         NEW o \in 0 .. (MEMORY - 1)
  PROVE  /\ At(files', Original(o)) = IF o \in Named(r) THEN data[o - r.offset]
                                      ELSE At(files, Original(o))
         /\ o \in Named(r) => At(files', Backup(o)) = data[o - r.offset]
         /\ o \notin Named(r) /\ o \notin Hit(r)
              => At(files', Backup(o)) = At(files, Backup(o))
<1> DEFINE a == Original(r.offset)
           b == Backup(r.offset)
           f1 == Store(files, a, r.size, data)
           M == MINION_SIZE
<1>1. /\ r.offset \in 0 .. (MEMORY - 1) /\ r.size \in 1 .. MaxRequest
      /\ r.size \in Nat \ {0} /\ M \in Nat \ {0}
  BY RequestType
<1>2. /\ a \in [minion : Minions, offset : Cells]
      /\ b \in [minion : Minions, offset : Cells]
      /\ a.minion = r.offset \div MINION_SIZE
      /\ a.offset = r.offset % MINION_SIZE
      /\ b.minion = ((r.offset \div MINION_SIZE) + 1) % 3
      /\ b.offset = (r.offset % MINION_SIZE) + MINION_SIZE
      /\ files' = Store(f1, b, r.size, data)
  BY <1>1, Places, PlacesType DEF WriteCommand
<1> HIDE DEF a, b
<1>3. f1 \in [Minions -> BinFile] /\ files \in [Minions -> BinFile]
  BY <1>1, <1>2, StoreType DEF TypeOK
<1>4. ASSUME NEW m \in Minions, NEW c \in Cells
      PROVE  files'[m][c] =
               IF m = b.minion /\ c \in Span(b, r.size) THEN data[c - b.offset]
               ELSE IF m = a.minion /\ c \in Span(a, r.size) THEN data[c - a.offset]
               ELSE files[m][c]
  <2>1. f1[m][c] = IF m = a.minion /\ c \in Span(a, r.size)
                   THEN data[c - a.offset] ELSE files[m][c]
    BY <1>1, <1>2, <1>3, StoreCell
  <2> HIDE DEF f1
  <2>2. Store(f1, b, r.size, data)[m][c] =
          IF m = b.minion /\ c \in Span(b, r.size) THEN data[c - b.offset]
          ELSE f1[m][c]
    <3>1. b \in [minion : Minions, offset : Cells] /\ r.size \in 1 .. MaxRequest
      BY <1>1, <1>2
    <3> QED BY <1>3, <3>1, StoreCell
  <2> QED BY <1>2, <2>1, <2>2
<1> HIDE DEF f1
<1> DEFINE q  == o \div MINION_SIZE
           k  == o % MINION_SIZE
           qr == r.offset \div MINION_SIZE
           kr == r.offset % MINION_SIZE
<1>5. /\ q \in 0 .. 2 /\ qr \in 0 .. 2
      /\ k \in 0 .. (M - 1) /\ kr \in 0 .. (M - 1)
  BY <1>1, DivMod
<1>6. /\ o \in Named(r) <=> q = qr /\ k \in kr .. (kr + r.size - 1)
      /\ q = qr => o - r.offset = k - kr
  BY NamedCells
<1>7. /\ Original(o).minion = q /\ Original(o).offset = k
      /\ Backup(o).minion = (q + 1) % 3 /\ Backup(o).offset = k + M
      /\ q \in Minions /\ (q + 1) % 3 \in Minions
      /\ k \in Cells /\ k + M \in Cells
  BY Places, PlacesType
<1>8. /\ Span(a, r.size) = kr .. (kr + r.size - 1)
      /\ Span(b, r.size) = (kr + M) .. (kr + M + r.size - 1)
      /\ a.minion = qr /\ a.offset = kr
      /\ b.minion = (qr + 1) % 3 /\ b.offset = kr + M
  BY <1>2 DEF Span
<1>9. o \in Hit(r) <=> (q + 1) % 3 = qr /\ k < kr + r.size - M
  BY DEF Hit, Excess
<1> HIDE DEF q, k, qr, kr, M
<1>10. At(files', Original(o)) = IF o \in Named(r) THEN data[o - r.offset]
                                 ELSE At(files, Original(o))
  <2>1. k \notin Span(b, r.size)
    BY <1>1, <1>5, <1>8
  <2>2. files'[q][k] = IF q = a.minion /\ k \in Span(a, r.size)
                       THEN data[k - a.offset] ELSE files[q][k]
    BY <1>4, <1>7, <2>1
  <2> QED BY <1>6, <1>7, <1>8, <2>2 DEF At
<1> DEFINE c == k + M
           m == (q + 1) % 3
<1>11. /\ m = b.minion <=> q = qr
       /\ c \in Span(b, r.size) <=> k \in kr .. (kr + r.size - 1)
       /\ c - b.offset = k - kr
       /\ c \in Span(a, r.size) => k < kr + r.size - M
       /\ m \in Minions /\ c \in Cells
  <2>1. m = (qr + 1) % 3 <=> q = qr
    BY <1>5
  <2> QED BY <1>1, <1>5, <1>7, <1>8, <2>1
<1>12. At(files', Backup(o)) = files'[m][c] /\ At(files, Backup(o)) = files[m][c]
  BY <1>7 DEF At
<1>13. files'[m][c] =
          IF m = b.minion /\ c \in Span(b, r.size) THEN data[c - b.offset]
          ELSE IF m = a.minion /\ c \in Span(a, r.size) THEN data[c - a.offset]
          ELSE files[m][c]
  BY <1>4, <1>11
<1>14. m = a.minion /\ c \in Span(a, r.size) => o \in Hit(r)
  BY <1>8, <1>9, <1>11
<1> HIDE DEF c, m
<1>15. o \in Named(r) => At(files', Backup(o)) = data[o - r.offset]
  BY <1>6, <1>11, <1>12, <1>13
<1>16. o \notin Named(r) /\ o \notin Hit(r) => At(files', Backup(o)) = At(files, Backup(o))
  BY <1>6, <1>11, <1>12, <1>13, <1>14
<1> QED BY <1>10, <1>15, <1>16

(* WriteCommand keeps the types.                                           *)
LEMMA WriteType ==
  ASSUME TypeOK, NEW r \in Requests, NEW data \in [0 .. (r.size - 1) -> Bytes],
         WriteCommand(r, data)
  PROVE  TypeOK'
<1> DEFINE a == Original(r.offset)
           b == Backup(r.offset)
<1>1. r.offset \in 0 .. (MEMORY - 1) /\ r.size \in 1 .. MaxRequest
      /\ MaxRequest \in Nat
  BY RequestType
<1>2. /\ a \in [minion : Minions, offset : Cells]
      /\ b \in [minion : Minions, offset : Cells]
      /\ files' = Store(Store(files, a, r.size, data), b, r.size, data)
      /\ result' = Nothing
  BY <1>1, Places, PlacesType DEF WriteCommand
<1> HIDE DEF a, b
<1>3. Store(files, a, r.size, data) \in [Minions -> BinFile]
  BY <1>1, <1>2, StoreType DEF TypeOK
<1>4. files' \in [Minions -> BinFile]
  BY <1>1, <1>2, <1>3, StoreType
<1>5. overrun' \subseteq 0 .. (MEMORY - 1)
  BY DEF WriteCommand, TypeOK, Hit
<1>6. result' \in UNION {[0 .. (n - 1) -> Bytes] : n \in 0 .. MaxRequest}
  <2>1. 0 \in 0 .. MaxRequest /\ 0 .. (0 - 1) = {}
    BY <1>1
  <2>2. result' \in [0 .. (0 - 1) -> Bytes]
    BY <1>2, <2>1 DEF Nothing
  <2> QED BY <2>1, <2>2
<1> QED BY <1>4, <1>5, <1>6 DEF TypeOK

(* ReadCommand returns cells of a file, past the end of a stripe too, and  *)
(* never gets to the end of the file.                                      *)
LEMMA ReadType ==
  ASSUME TypeOK, NEW r \in Requests, ReadCommand(r)
  PROVE  /\ TypeOK'
         /\ result' \in [0 .. (r.size - 1) -> Bytes]
         /\ \A i \in 0 .. (r.size - 1) :
              result'[i] = files[Original(r.offset).minion][Original(r.offset).offset + i]
<1> DEFINE a == Original(r.offset)
<1>1. /\ r.offset \in 0 .. (MEMORY - 1) /\ r.size \in 1 .. MaxRequest
      /\ MINION_SIZE \in Nat \ {0} /\ MaxRequest \in 1 .. MINION_SIZE
  BY RequestType
<1>2. a \in [minion : Minions, offset : Cells] /\ a.offset < MINION_SIZE
  BY <1>1, PlacesType
<1>3. /\ result' = [i \in 0 .. (r.size - 1) |-> files[a.minion][a.offset + i]]
      /\ files' = files /\ overrun' = overrun
  BY DEF ReadCommand, Fetch, Original
<1> HIDE DEF a
<1>4. \A i \in 0 .. (r.size - 1) : a.offset + i \in Cells
  BY <1>1, <1>2 DEF Cells
<1>5. \A i \in 0 .. (r.size - 1) : files[a.minion][a.offset + i] \in Bytes
  BY <1>2, <1>4, FileCells DEF TypeOK
<1>6. result' \in [0 .. (r.size - 1) -> Bytes] /\ r.size \in 0 .. MaxRequest
  BY <1>1, <1>3, <1>5
<1>7. TypeOK'
  BY <1>3, <1>6 DEF TypeOK
<1>8. \A i \in 0 .. (r.size - 1) : result'[i] = files[a.minion][a.offset + i]
  BY <1>3
<1> QED BY <1>6, <1>7, <1>8 DEF a

-----------------------------------------------------------------------------
(* The initial files are zero filled.                                      *)
LEMMA InitType == Init => TypeOK /\ Mirrored
<1> SUFFICES ASSUME Init PROVE TypeOK /\ Mirrored
  OBVIOUS
<1>0. MINION_SIZE \in Nat \ {0} /\ MaxRequest \in 1 .. MINION_SIZE /\ Zero \in Bytes
  BY RaidAssumption, VolumeAssumption
<1>1. files \in [Minions -> BinFile]
  <2>1. [c \in Cells |-> Zero] \in [0 .. (2 * MINION_SIZE - 1) -> Bytes]
    BY <1>0 DEF Cells
  <2>2. 2 * MINION_SIZE \in (2 * MINION_SIZE) .. (2 * MINION_SIZE + MaxRequest - 1)
    BY <1>0
  <2>3. [c \in Cells |-> Zero] \in BinFile
    BY <2>1, <2>2 DEF BinFile
  <2> QED BY <2>3 DEF Init
<1>2. result \in UNION {[0 .. (n - 1) -> Bytes] : n \in 0 .. MaxRequest}
  <2>1. 0 \in 0 .. MaxRequest /\ 0 .. (0 - 1) = {}
    BY <1>0
  <2>2. result \in [0 .. (0 - 1) -> Bytes]
    BY <2>1 DEF Init, Nothing
  <2> QED BY <2>1, <2>2
<1>3. Mirrored
  <2> SUFFICES ASSUME NEW o \in 0 .. (MEMORY - 1)
               PROVE  At(files, Original(o)) = At(files, Backup(o))
    BY DEF Mirrored
  <2>1. /\ Original(o).minion \in Minions /\ Original(o).offset \in Cells
        /\ Backup(o).minion \in Minions /\ Backup(o).offset \in Cells
    BY PlacesType
  <2> QED BY <2>1 DEF Init, At
<1>4. overrun \subseteq 0 .. (MEMORY - 1)
  BY DEF Init
<1> QED BY <1>1, <1>2, <1>3, <1>4 DEF TypeOK

(* For every stripe size and every request up to a stripe long: a file     *)
(* keeps what GetBinFile filled and grows past it by less than a request   *)
(* (MinionWriteCmd); no read gets to the end of a file (MinionReadCmd).    *)
THEOREM VolumeTypeTheorem == Spec => []TypeOK
<1>1. Init => TypeOK
  BY InitType
<1>2. TypeOK /\ [Next]_vars => TypeOK'
  <2> SUFFICES ASSUME TypeOK, [Next]_vars PROVE TypeOK'
    OBVIOUS
  <2>1. CASE UNCHANGED vars
    BY <2>1 DEF vars, TypeOK
  <2> QED BY <2>1, WriteType, ReadType DEF Next
<1> QED BY <1>1, <1>2, PTL DEF Spec

(* The inductive step for the mirroring.                                   *)
LEMMA NextMirrored ==
  ASSUME TypeOK, Mirrored, [Next]_vars
  PROVE  Mirrored'
<1>1. ASSUME NEW r \in Requests, NEW data \in [0 .. (r.size - 1) -> Bytes],
             WriteCommand(r, data)
      PROVE  Mirrored'
  <2>1. ASSUME NEW o \in (0 .. (MEMORY - 1)) \ overrun'
        PROVE  At(files', Original(o)) = At(files', Backup(o))
    <3>1. o \in Named(r) \/ (o \notin overrun /\ o \notin Hit(r))
      BY <1>1, <2>1 DEF WriteCommand
    <3>2. CASE o \in Named(r)
      BY <1>1, <3>2, WriteEffect
    <3>3. CASE o \notin Named(r)
      <4>1. o \in (0 .. (MEMORY - 1)) \ overrun /\ o \notin Hit(r)
        BY <3>1, <3>3
      <4>2. At(files, Original(o)) = At(files, Backup(o))
        BY <4>1 DEF Mirrored
      <4> QED BY <1>1, <3>3, <4>1, <4>2, WriteEffect
    <3> QED BY <3>2, <3>3
  <2> QED BY <2>1 DEF Mirrored, At, Original, Backup, OffsetToProxy, Place
<1>2. ASSUME NEW r \in Requests, ReadCommand(r)
      PROVE  Mirrored'
  BY <1>2 DEF ReadCommand, Mirrored, At, Original, Backup, OffsetToProxy, Place
<1>3. CASE UNCHANGED vars
  BY <1>3 DEF vars, Mirrored, At, Original, Backup, OffsetToProxy, Place
<1> QED BY <1>1, <1>2, <1>3 DEF Next

(* RAID 10 (README:5), for every stripe size and any sequence of requests  *)
(* up to a stripe long, crossing ones included: the two copies of a cell   *)
(* differ only where a write that went past the end of the next stripe has *)
(* hit the backup since the cell was last written.                         *)
THEOREM MirroredTheorem == Spec => []Mirrored
<1>1. Init => TypeOK /\ Mirrored
  BY InitType
<1>2. TypeOK /\ Mirrored /\ [Next]_vars => Mirrored'
  BY NextMirrored
<1> QED BY <1>1, <1>2, VolumeTypeTheorem, PTL DEF Spec

(* The files start as a zeroed disk.                                       *)
LEMMA RefineInit == Init => Device!Init
<1> SUFFICES ASSUME Init PROVE Device!Init
  OBVIOUS
<1>1. \A o \in 0 .. (MEMORY - 1) : At(files, Original(o)) = Zero
  <2> SUFFICES ASSUME NEW o \in 0 .. (MEMORY - 1)
               PROVE  At(files, Original(o)) = Zero
    OBVIOUS
  <2>1. Original(o).minion \in Minions /\ Original(o).offset \in Cells
    BY PlacesType
  <2> QED BY <2>1 DEF Init, At
<1> QED BY <1>1 DEF Init, Nothing, Device!Init, Device!Nothing, disk

(* Every request on the files is the same request on the disk.             *)
LEMMA RefineNext ==
  ASSUME TypeOK, [Next]_vars
  PROVE  [Device!Next]_<<disk, result, call>>
<1>0. disk' = [o \in 0 .. (MEMORY - 1) |-> At(files', Original(o))]
  BY DEF disk, At, Original, OffsetToProxy, Place
<1>1. ASSUME NEW r \in Requests
      PROVE  Device!Served(r) = Named(r)
  BY DEF Device!Served, Device!Range, Named
<1>2. \A o \in 0 .. (MEMORY - 1) : disk[o] = At(files, Original(o))
  BY DEF disk
<1>3. ASSUME NEW r \in Requests, NEW data \in [0 .. (r.size - 1) -> Bytes],
             WriteCommand(r, data)
      PROVE  Device!Write(r, data)
  <2>1. ASSUME NEW o \in 0 .. (MEMORY - 1)
        PROVE  At(files', Original(o)) = IF o \in Named(r) THEN data[o - r.offset]
                                         ELSE disk[o]
    BY <1>2, <1>3, WriteEffect
  <2>2. disk' = [o \in 0 .. (MEMORY - 1) |->
                   IF o \in Device!Served(r) THEN data[o - r.offset] ELSE disk[o]]
    BY <1>0, <1>1, <2>1
  <2>3. result' = Nothing /\ call' = <<"write", r, data>>
    BY <1>3 DEF WriteCommand
  <2> QED BY <2>2, <2>3 DEF Device!Write, Device!Nothing, Nothing
<1>4. ASSUME NEW r \in Requests, ReadCommand(r)
      PROVE  Device!Read(r)
  <2> DEFINE a == Original(r.offset)
  <2>1. /\ result' \in [0 .. (r.size - 1) -> Bytes]
        /\ \A i \in 0 .. (r.size - 1) : result'[i] = files[a.minion][a.offset + i]
    BY <1>4, ReadType
  <2>2. ASSUME NEW o \in Named(r) PROVE result'[o - r.offset] = disk[o]
    <3>1. /\ r.offset \in 0 .. (MEMORY - 1) /\ r.size \in Nat
          /\ r.offset + r.size <= MEMORY /\ MEMORY \in Nat
      BY RequestType
    <3>2. o \in r.offset .. (r.offset + r.size - 1)
      BY DEF Named
    <3>3. o \in 0 .. (MEMORY - 1) /\ o - r.offset \in 0 .. (r.size - 1)
      BY <3>1, <3>2
    <3>4. /\ o \div MINION_SIZE = r.offset \div MINION_SIZE
          /\ o - r.offset = (o % MINION_SIZE) - (r.offset % MINION_SIZE)
      BY <3>3, NamedCells
    <3>5. /\ a.minion = o \div MINION_SIZE /\ a.offset = r.offset % MINION_SIZE
          /\ Original(o).minion = o \div MINION_SIZE
          /\ Original(o).offset = o % MINION_SIZE
      BY <3>1, <3>3, <3>4, Places
    <3>6. o % MINION_SIZE \in Int /\ r.offset % MINION_SIZE \in Int
      BY <3>1, <3>3, DivMod
    <3>7. a.offset + (o - r.offset) = Original(o).offset /\ a.minion = Original(o).minion
      BY <3>4, <3>5, <3>6
    <3>8. result'[o - r.offset] = files[a.minion][a.offset + (o - r.offset)]
      BY <2>1, <3>3
    <3> QED BY <1>2, <3>3, <3>7, <3>8 DEF At
  <2>3. files' = files
    BY <1>4 DEF ReadCommand
  <2>4. disk' = disk
    BY <1>0, <2>3 DEF disk
  <2>5. call' = <<"read", r>>
    BY <1>4 DEF ReadCommand
  <2> QED BY <1>1, <2>1, <2>2, <2>4, <2>5 DEF Device!Read
<1>5. CASE UNCHANGED vars
  BY <1>0, <1>5 DEF vars, disk
<1> QED BY <1>3, <1>4, <1>5 DEF Next, Device!Next

(* The three files serve every request, crossing or not, as the disk of    *)
(* BlockDevice does: exactly for the cells it names in the stripe it       *)
(* begins in.  For every stripe size.                                      *)
THEOREM BlockDeviceTheorem == Spec => ImplementsBlockDevice
<1>1. Init => Device!Init
  BY RefineInit
<1>2. TypeOK /\ [Next]_vars => [Device!Next]_<<disk, result, call>>
  BY RefineNext
<1> QED BY <1>1, <1>2, VolumeTypeTheorem, PTL DEF Spec, ImplementsBlockDevice, Device!Spec
=============================================================================
