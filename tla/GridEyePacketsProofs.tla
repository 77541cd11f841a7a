------------------------ MODULE GridEyePacketsProofs ------------------------
(***************************************************************************)
(* Properties of GridEyePackets for frames of any size, any buffer and any *)
(* number of packets, cut into reads in any way.                           *)
(*                                                                         *)
(* Every byte of a read is a byte of some packet (ByteAt), so that three   *)
(* stars are found only where a packet begins, or right behind, where the  *)
(* thermistor byte completes them (HeadIsPacket).  From one head the       *)
(* search goes on at the begin of the next packet (Aligned), unless the    *)
(* first head was such a false one; so it passes every packet it holds,    *)
(* and Decoded counts the frames these have given.                         *)
(***************************************************************************)
EXTENDS GridEyePackets, FiniteSetTheorems, NaturalsInduction, WellFoundedInduction, TLAPS

\* The high byte of a temperature is not a star: the sensor has 12 bits.
HighBytesAreNoStars ==
    \A t \in Temperatures : \A c \in 1..Cells : t[c] \div 256 # Star

\* No frame is at a multiple of 64 degrees, 256 quarters, nearly all over.
FramesAreVaried ==
    \A t \in Temperatures : \E c, e \in 2..Cells :
        c # e /\ t[c] % 256 # 0 /\ t[e] % 256 # 0
-----------------------------------------------------------------------------
(* Arithmetic of places in the stream.                                     *)

LEMMA DivMod ==
    ASSUME NEW a \in Nat, NEW d \in Nat, d > 0
    PROVE  /\ a = d * (a \div d) + (a % d)
           /\ a % d \in 0..d - 1 /\ a \div d \in Nat
OBVIOUS

LEMMA Multiples ==
    ASSUME NEW d \in Nat, d > 0, NEW m \in Int, NEW n \in Int
    PROVE  /\ d * m \in Int /\ d * (m + 1) = d * m + d
           /\ m < n => d * m + d <= d * n
           /\ m \in Nat => d * m \in Nat
OBVIOUS

LEMMA ConstantFact ==
    /\ Cells \in Nat /\ BufSize \in Nat /\ MaxPackets \in Nat
    /\ Temperatures \subseteq [1..Cells -> Word]
    /\ Thermistors \subseteq 0..255
BY Zenon, PacketAssumption DEF PacketAssumption

LEMMA LengthFact == Cells \in Nat /\ PacketLength \in Nat /\ PacketLength >= 6
<1>1. Cells \in Nat
    BY Zenon, ConstantFact
<1> QED
    BY <1>1 DEF PacketLength

\* The variables a read does not change, and what is known of them.
Streams == [1..MaxPackets -> [frame : Temperatures, th : Thermistors]]

Stream ==
    /\ stream \in Streams
    /\ start \in Nat /\ len \in Nat /\ len <= BufSize
    /\ start + len <= Sent

LEMMA StreamFact ==
    ASSUME Stream
    PROVE  MaxPackets \in Nat /\ DOMAIN stream = 1..MaxPackets /\ Len(stream) = MaxPackets
<1>1. MaxPackets \in Nat /\ DOMAIN stream = 1..MaxPackets
    BY Zenon, ConstantFact DEF Stream, Streams
<1> QED
    BY <1>1

LEMMA PacketFact ==
    ASSUME Stream, NEW p \in DOMAIN stream
    PROVE  /\ stream[p].frame \in Temperatures /\ stream[p].frame \in [1..Cells -> Word]
           /\ stream[p].th \in 0..255
<1>1. stream[p] \in [frame : Temperatures, th : Thermistors]
    BY DEF Stream, Streams
<1>2. stream[p].frame \in Temperatures /\ stream[p].th \in Thermistors
    BY <1>1
<1> QED
    BY Zenon, <1>2, ConstantFact

LEMMA NumberFact ==
    ASSUME Stream, NEW p \in DOMAIN stream
    PROVE  p \in Int /\ p \in 1..MaxPackets
<1>1. MaxPackets \in Nat /\ DOMAIN stream = 1..MaxPackets
    BY Zenon, StreamFact
<1> QED
    BY <1>1

\* Packets follow each other.
LEMMA OffsetFact ==
    ASSUME Stream
    PROVE  /\ \A p \in Int : Offset(p) \in Int /\ Offset(p + 1) = Offset(p) + PacketLength
           /\ \A p, r \in Int : p < r => Offset(p) + PacketLength <= Offset(r)
           /\ Offset(MaxPackets + 1) >= len
<1>1. start \in Int /\ PacketLength \in Int
    BY LengthFact DEF Stream
<1>2. ASSUME NEW p \in Int
      PROVE  Offset(p) \in Int /\ Offset(p + 1) = Offset(p) + PacketLength
  <2> DEFINE x == PacketLength * (p - 1)
             y == PacketLength * ((p + 1) - 1)
  <2>1. x \in Int /\ y = x + PacketLength
      BY LengthFact, Multiples
  <2>2. Offset(p) = x - start /\ Offset(p + 1) = y - start
      BY DEF Offset
  <2> HIDE DEF x, y
  <2> QED
      BY <1>1, <2>1, <2>2
<1>3. ASSUME NEW p \in Int, NEW r \in Int, p < r
      PROVE  Offset(p) + PacketLength <= Offset(r)
  <2> DEFINE x == PacketLength * (p - 1)
             y == PacketLength * (r - 1)
  <2>1. x \in Int /\ y \in Int /\ x + PacketLength <= y
    <3>1. p - 1 \in Int /\ r - 1 \in Int /\ p - 1 < r - 1
        BY <1>3
    <3> QED
        BY <3>1, LengthFact, Multiples
  <2>2. Offset(p) = x - start /\ Offset(r) = y - start
      BY DEF Offset
  <2> HIDE DEF x, y
  <2> QED
      BY <1>1, <2>1, <2>2
<1>4. Offset(MaxPackets + 1) >= len
  <2> DEFINE x == PacketLength * MaxPackets
  <2>1. MaxPackets \in Nat /\ Sent = x /\ Offset(MaxPackets + 1) = x - start
    <3>1. MaxPackets \in Nat /\ Len(stream) = MaxPackets
        BY StreamFact
    <3>2. (MaxPackets + 1) - 1 = MaxPackets
        BY <3>1
    <3> QED
        BY <3>1, <3>2 DEF Sent, Offset
  <2>2. x \in Int
      BY <2>1, LengthFact, Multiples
  <2>3. len \in Int /\ start + len <= x
      BY <2>1 DEF Stream
  <2> HIDE DEF x
  <2> QED
      BY <1>1, <2>1, <2>2, <2>3
<1> QED
    BY <1>2, <1>3, <1>4

\* A byte of a read is a byte of a packet.
LEMMA ByteAt ==
    ASSUME Stream, NEW k \in Nat, k < len
    PROVE  \E p \in DOMAIN stream : \E j \in 0..PacketLength - 1 :
                k = Offset(p) + j /\ Byte(k) = PacketByte(stream[p], j)
<1> DEFINE d == PacketLength
           a == start + k
           m == a \div d
           p == 1 + m
           j == a % d
<1>1. a \in Nat /\ d \in Nat /\ d > 0 /\ start \in Nat
    BY LengthFact DEF Stream
<1>2. a = d * m + j /\ j \in 0..d - 1 /\ m \in Nat
    BY <1>1, DivMod
<1>3. p - 1 = m /\ p \in Nat /\ p >= 1
    BY <1>2
<1>4. k = Offset(p) + j
  <2>1. Offset(p) = d * m - start
      BY <1>3 DEF Offset
  <2>2. d * m \in Int
      BY <1>1, <1>2, Multiples
  <2> QED
      BY <1>1, <1>2, <2>1, <2>2
<1>5. p \in DOMAIN stream
  <2>1. MaxPackets \in Nat /\ DOMAIN stream = 1..MaxPackets
      BY StreamFact
  <2>2. Offset(p) \in Int /\ Offset(MaxPackets + 1) \in Int /\ len \in Int
      BY <1>3, <2>1, OffsetFact DEF Stream
  <2>3. Offset(p) <= k
      BY <1>2, <1>4, <2>2, LengthFact
  <2>4. ~(p > MaxPackets)
    <3> SUFFICES ASSUME p > MaxPackets PROVE FALSE
        OBVIOUS
    <3>1. Offset(MaxPackets + 1) >= len
        BY OffsetFact
    <3>2. CASE p = MaxPackets + 1
        BY <2>2, <2>3, <3>1, <3>2
    <3>3. CASE p > MaxPackets + 1
      <4>1. Offset(MaxPackets + 1) + PacketLength <= Offset(p)
          BY <3>3, <1>3, <2>1, OffsetFact
      <4> QED
          BY <2>2, <2>3, <3>1, <4>1, LengthFact
    <3> QED
        BY <1>3, <2>1, <3>2, <3>3
  <2> QED
      BY <1>3, <2>1, <2>4
<1>6. Byte(k) = PacketByte(stream[p], j)
    BY DEF Byte
<1> HIDE DEF p, j
<1> QED
    BY <1>2, <1>4, <1>5, <1>6

\* And no other.
LEMMA PlaceIsUnique ==
    ASSUME Stream, NEW p \in Int, NEW r \in Int,
           NEW i \in 0..PacketLength - 1, NEW j \in 0..PacketLength - 1,
           Offset(p) + i = Offset(r) + j
    PROVE  p = r /\ i = j
<1>1. Offset(p) \in Int /\ Offset(r) \in Int /\ PacketLength \in Int
    BY OffsetFact, LengthFact
<1>2. ~(p < r)
  <2> SUFFICES ASSUME p < r PROVE FALSE
      OBVIOUS
  <2>1. Offset(p) + PacketLength <= Offset(r)
      BY OffsetFact
  <2> QED
      BY <1>1, <2>1
<1>3. ~(r < p)
  <2> SUFFICES ASSUME r < p PROVE FALSE
      OBVIOUS
  <2>1. Offset(r) + PacketLength <= Offset(p)
      BY OffsetFact
  <2> QED
      BY <1>1, <2>1
<1>4. p = r
    BY <1>2, <1>3
<1> QED
    BY <1>1, <1>4

\* The bytes of the packet that begins at Offset(p), as far as the read goes.
LEMMA BytesOfPacket ==
    ASSUME Stream, NEW p \in DOMAIN stream, NEW j \in 0..PacketLength - 1,
           0 <= Offset(p) + j, Offset(p) + j < len
    PROVE  Byte(Offset(p) + j) = PacketByte(stream[p], j)
<1>1. p \in Int
    BY NumberFact
<1>2. Offset(p) + j \in Nat
    BY <1>1, OffsetFact, LengthFact
<1>3. PICK r \in DOMAIN stream, i \in 0..PacketLength - 1 :
          Offset(p) + j = Offset(r) + i /\ Byte(Offset(p) + j) = PacketByte(stream[r], i)
    BY <1>2, ByteAt
<1>4. r \in Int
    BY NumberFact
<1>5. p = r /\ j = i
    BY <1>1, <1>3, <1>4, PlaceIsUnique
<1> QED
    BY <1>3, <1>5
-----------------------------------------------------------------------------
(* What a packet consists of, and where three stars are.                   *)

LEMMA HalfOfOdd ==
    ASSUME NEW c \in Int
    PROVE  /\ (3 + 2 * c - 3) \div 2 = c /\ (3 + 2 * c) % 2 = 1
           /\ (4 + 2 * c - 3) \div 2 = c /\ (4 + 2 * c) % 2 = 0
OBVIOUS

LEMMA TemperatureBytes ==
    ASSUME NEW p, NEW c \in 1..Cells
    PROVE  /\ PacketByte(p, 3 + 2 * c) = p.frame[c] % 256
           /\ PacketByte(p, 4 + 2 * c) = p.frame[c] \div 256
<1>1. Cells \in Nat /\ c \in Int /\ 1 <= c /\ c <= Cells /\ PacketLength = 6 + 2 * Cells
    BY LengthFact DEF PacketLength
<1>2. /\ ~(3 + 2 * c <= 2) /\ ~(3 + 2 * c <= 4) /\ 3 + 2 * c # PacketLength - 1
      /\ ~(4 + 2 * c <= 2) /\ ~(4 + 2 * c <= 4) /\ 4 + 2 * c # PacketLength - 1
    BY <1>1
<1>3. /\ (3 + 2 * c - 3) \div 2 = c /\ (3 + 2 * c) % 2 = 1
      /\ (4 + 2 * c - 3) \div 2 = c /\ (4 + 2 * c) % 2 = 0
    BY <1>1, HalfOfOdd
<1> DEFINE a == 3 + 2 * c
           b == 4 + 2 * c
<1>4. /\ ~(a <= 2) /\ ~(a <= 4) /\ a # PacketLength - 1 /\ (a - 3) \div 2 = c /\ a % 2 = 1
      /\ ~(b <= 2) /\ ~(b <= 4) /\ b # PacketLength - 1 /\ (b - 3) \div 2 = c /\ b % 2 = 0
    BY <1>2, <1>3
<1> HIDE DEF a, b
<1>5. PacketByte(p, a) = p.frame[c] % 256
    BY <1>4 DEF PacketByte
<1>6. PacketByte(p, b) = p.frame[c] \div 256
  <2>1. ~(b % 2 = 1)
      BY <1>4
  <2> QED
      BY <1>4, <2>1 DEF PacketByte
<1> QED
    BY <1>5, <1>6 DEF a, b

LEMMA OtherBytes ==
    ASSUME NEW p
    PROVE  /\ \A j \in 0..2 : PacketByte(p, j) = Star
           /\ PacketByte(p, 3) = p.th /\ PacketByte(p, 4) = 1
           /\ PacketByte(p, PacketLength - 1) = 10
<1>1. PacketLength \in Nat /\ PacketLength >= 6
    BY LengthFact
<1>2. ~(PacketLength - 1 <= 2) /\ ~(PacketLength - 1 <= 4)
    BY <1>1
<1>3. PacketByte(p, PacketLength - 1) = 10
    BY <1>2 DEF PacketByte
<1>4. ASSUME NEW j \in 0..2 PROVE PacketByte(p, j) = Star
    BY DEF PacketByte
<1>5. PacketByte(p, 3) = p.th /\ PacketByte(p, 4) = 1
    BY DEF PacketByte
<1> QED
    BY <1>3, <1>4, <1>5

\* A byte behind the first five is the last one or belongs to a temperature.
LEMMA DataByte ==
    ASSUME NEW j \in 5..PacketLength - 2
    PROVE  \E c \in 1..Cells : j = 3 + 2 * c \/ j = 4 + 2 * c
<1> DEFINE c == (j - 3) \div 2
           r == (j - 3) % 2
<1>1. Cells \in Nat /\ PacketLength = 6 + 2 * Cells
    BY LengthFact DEF PacketLength
<1>2. j \in Int /\ 5 <= j /\ j <= 4 + 2 * Cells /\ j - 3 \in Nat
    BY <1>1
<1>3. j - 3 = 2 * c + r /\ r \in 0..1 /\ c \in Nat
    BY <1>2, DivMod
<1> HIDE DEF c, r
<1>4. c \in 1..Cells
    BY <1>1, <1>2, <1>3
<1>5. j = 3 + 2 * c \/ j = 4 + 2 * c
    BY <1>2, <1>3
<1> QED
    BY <1>4, <1>5

\* A head lies where a packet begins or, falsely, one byte behind.
LEMMA HeadIsPacket ==
    ASSUME Stream, HighBytesAreNoStars, NEW k \in Nat, IsHead(k)
    PROVE  \E p \in DOMAIN stream :
              k = Offset(p) \/ (k = Offset(p) + 1 /\ stream[p].th = Star)
<1>1. k + 2 < len /\ len \in Int /\ PacketLength \in Int /\ PacketLength >= 6
    BY LengthFact DEF IsHead, Stream
<1>2. Byte(k + 0) = Star /\ Byte(k + 1) = Star /\ Byte(k + 2) = Star
    BY DEF IsHead
<1>3. PICK p \in DOMAIN stream, j \in 0..PacketLength - 1 : k = Offset(p) + j
    BY <1>1, ByteAt
<1>4. p \in Int /\ Offset(p) \in Int /\ j \in Int
    BY <1>1, NumberFact, OffsetFact
<1>5. ASSUME NEW i \in 0..2, j + i <= PacketLength - 1
      PROVE  PacketByte(stream[p], j + i) = Star
  <2>1. j + i \in 0..PacketLength - 1 /\ Offset(p) + (j + i) = k + i
      BY <1>1, <1>3, <1>4, <1>5
  <2>2. 0 <= Offset(p) + (j + i) /\ Offset(p) + (j + i) < len
      BY <1>1, <2>1
  <2>3. Byte(k + i) = PacketByte(stream[p], j + i)
      BY <2>1, <2>2, BytesOfPacket
  <2> QED
      BY <1>2, <2>3
<1>6. Star # 1 /\ Star # 10
    BY DEF Star
<1>7. CASE j = 0
    BY <1>3, <1>4, <1>7
<1>8. CASE j = 1
  <2>1. PacketByte(stream[p], 1 + 2) = Star
      BY <1>1, <1>5, <1>8
  <2>2. stream[p].th = Star
      BY <2>1, OtherBytes
  <2> QED
      BY <1>3, <1>4, <1>8, <2>2
<1>9. CASE j \in 2..4
  <2>1. 4 - j \in 0..2 /\ j + (4 - j) = 4 /\ 4 <= PacketLength - 1
      BY <1>1, <1>9
  <2>2. PacketByte(stream[p], j + (4 - j)) = Star
      BY <1>5, <2>1
  <2> QED
      BY <1>6, <2>1, <2>2, OtherBytes
<1>10. CASE j \in 5..PacketLength - 2
  <2>1. PICK c \in 1..Cells : j = 3 + 2 * c \/ j = 4 + 2 * c
      BY <1>10, DataByte
  <2>2. Cells \in Nat /\ PacketLength = 6 + 2 * Cells
      BY LengthFact DEF PacketLength
  <2> DEFINE i == 4 + 2 * c - j
  <2>3. i \in 0..2 /\ j + i = 4 + 2 * c /\ j + i <= PacketLength - 1
      BY <1>4, <2>1, <2>2
  <2> HIDE DEF i
  <2>4. PacketByte(stream[p], 4 + 2 * c) = Star
      BY <1>5, <2>3
  <2>5. stream[p].frame \in Temperatures
      BY Zenon, PacketFact
  <2>6. stream[p].frame[c] \div 256 # Star
      BY <2>5 DEF HighBytesAreNoStars
  <2> QED
      BY <2>4, <2>6, TemperatureBytes
<1>11. CASE j = PacketLength - 1
  <2>1. PacketByte(stream[p], j + 0) = Star
      BY <1>1, <1>4, <1>5, <1>11
  <2>2. j + 0 = PacketLength - 1
      BY <1>1, <1>11
  <2> QED
      BY <1>6, <2>1, <2>2, OtherBytes
<1> QED
    BY <1>1, <1>4, <1>7, <1>8, <1>9, <1>10, <1>11

\* And every packet is found that begins in the read.
LEMMA PacketHasHead ==
    ASSUME Stream, NEW p \in DOMAIN stream, 0 <= Offset(p), Offset(p) + 2 < len
    PROVE  IsHead(Offset(p))
<1>1. Offset(p) \in Int /\ len \in Int /\ PacketLength \in Int /\ PacketLength >= 6
    BY NumberFact, OffsetFact, LengthFact DEF Stream
<1>2. ASSUME NEW j \in 0..2 PROVE Byte(Offset(p) + j) = Star
  <2>1. j \in 0..PacketLength - 1 /\ 0 <= Offset(p) + j /\ Offset(p) + j < len
      BY <1>1
  <2>2. Byte(Offset(p) + j) = PacketByte(stream[p], j)
      BY <2>1, BytesOfPacket
  <2> QED
      BY <2>2, OtherBytes
<1> QED
    BY <1>2 DEF IsHead
-----------------------------------------------------------------------------
(* The types.                                                              *)

IsByte(b) == b \in Nat /\ b < 256

LEMMA BytesOfNumber ==
    ASSUME NEW t \in Nat
    PROVE  /\ IsByte(t % 256) /\ t \div 256 \in Nat
           /\ (t % 256) + 256 * (t \div 256) = t
           /\ t < 256 * 256 => IsByte(t \div 256)
BY DEF IsByte

LEMMA NumberOfBytes ==
    ASSUME NEW a, NEW b, IsByte(a), IsByte(b)
    PROVE  /\ a + 256 * b \in Word
           /\ b # 0 => a + 256 * b >= 150
<1>1. a \in Nat /\ b \in Nat /\ a <= 255 /\ b <= 255
    BY DEF IsByte
<1>2. 256 * 256 - 1 = 255 + 256 * 255
    OBVIOUS
<1>3. 0 <= a + 256 * b /\ a + 256 * b <= 255 + 256 * 255 /\ a + 256 * b \in Int
    BY <1>1
<1>4. b # 0 => a + 256 * b >= 150
    BY <1>1
<1> DEFINE x == a + 256 * b
           n == 256 * 256 - 1
<1>5. x \in Int /\ n \in Int /\ 0 <= x /\ x <= n
    BY <1>2, <1>3
<1> HIDE DEF x, n
<1>6. x \in 0..n
    BY <1>5
<1> QED
    BY <1>4, <1>6 DEF x, n, Word

LEMMA PacketByteType ==
    ASSUME Stream, NEW p \in DOMAIN stream, NEW j \in 0..PacketLength - 1
    PROVE  IsByte(PacketByte(stream[p], j))
<1>1. PacketLength \in Nat /\ PacketLength >= 6
    BY LengthFact
<1>2. CASE j \in 0..2
    BY <1>2, OtherBytes DEF Star, IsByte
<1>3. CASE j = 3
  <2>1. stream[p].th \in 0..255
      BY Zenon, PacketFact
  <2>2. IsByte(stream[p].th)
      BY <2>1 DEF IsByte
  <2> QED
      BY <1>3, <2>2, OtherBytes
<1>4. CASE j = 4
    BY <1>4, OtherBytes DEF IsByte
<1>5. CASE j \in 5..PacketLength - 2
  <2>1. PICK c \in 1..Cells : j = 3 + 2 * c \/ j = 4 + 2 * c
      BY <1>5, DataByte
  <2> DEFINE t == stream[p].frame[c]
  <2>2. t \in Word
      BY PacketFact
  <2> HIDE DEF t
  <2>3. t \in Nat /\ t < 256 * 256
      BY <2>2 DEF Word
  <2>4. IsByte(t % 256) /\ IsByte(t \div 256)
      BY <2>3, BytesOfNumber
  <2> QED
      BY <2>1, <2>4, TemperatureBytes DEF t
<1>6. CASE j = PacketLength - 1
    BY <1>6, OtherBytes DEF IsByte
<1> QED
    BY <1>1, <1>2, <1>3, <1>4, <1>5, <1>6

LEMMA ByteType ==
    ASSUME Stream, beyond \in Beyond, NEW k \in Nat
    PROVE  IsByte(Byte(k))
<1>1. CASE k < len
  <2>1. PICK p \in DOMAIN stream, j \in 0..PacketLength - 1 : Byte(k) = PacketByte(stream[p], j)
      BY <1>1, ByteAt
  <2> QED
      BY <2>1, PacketByteType
<1>2. CASE ~(k < len)
  <2>1. Byte(k) \in {0, beyond}
      BY <1>2 DEF Byte
  <2>2. beyond \in 0..255
      BY Zenon, PacketAssumption
  <2>3. IsByte(beyond) /\ IsByte(0)
      BY <2>2 DEF IsByte
  <2> QED
      BY <2>1, <2>3
<1> QED
    BY <1>1, <1>2

LEMMA ReadingType ==
    ASSUME Stream, beyond \in Beyond, NEW k \in Nat
    PROVE  [c \in 1..Cells |-> Reading(k, c)] \in [1..Cells -> Word]
<1>1. ASSUME NEW c \in 1..Cells PROVE Reading(k, c) \in Word
  <2>1. k + 5 + 2 * (c - 1) \in Nat /\ k + 6 + 2 * (c - 1) \in Nat
      BY LengthFact
  <2>2. IsByte(Byte(k + 5 + 2 * (c - 1))) /\ IsByte(Byte(k + 6 + 2 * (c - 1)))
      BY <2>1, ByteType
  <2> QED
      BY <2>2, NumberOfBytes DEF Reading
<1> QED
    BY <1>1

LEMMA LeastOf ==
    ASSUME NEW S, S \subseteq Nat, S # {}
    PROVE  \E k \in S : \A j \in S : k <= j
<1> DEFINE R == {p \in Nat \X Nat : p[1] < p[2]}
<1>1. IsWellFoundedOn(R, Nat)
    BY NatLessThanWellFounded DEF OpToRel
<1> HIDE DEF R
<1>2. PICK k \in S : \A j \in S : ~(<<j, k>> \in R)
    BY <1>1, WFMin
<1>3. ASSUME NEW j \in S PROVE k <= j
  <2>1. k \in Nat /\ j \in Nat
      OBVIOUS
  <2>2. j < k => <<j, k>> \in R
      BY <2>1 DEF R
  <2> QED
      BY <1>2, <2>1, <2>2
<1> QED
    BY <1>3

\* find_packet_head returns the first head, or a place behind the last byte.
LEMMA FindFact ==
    ASSUME NEW from \in Nat, len \in Nat
    PROVE  LET n == find_packet_head(from)
           IN  \/ /\ n \in from..len - 1 /\ IsHead(n)
                  /\ \A h \in from..len - 1 : IsHead(h) => n <= h
               \/ /\ n \in Nat /\ n >= len /\ n >= from /\ (n = len \/ n = from)
                  /\ \A h \in from..len - 1 : ~IsHead(h)
<1> DEFINE heads == {k \in from..len - 1 : IsHead(k)}
           n == find_packet_head(from)
<1>1. n = IF heads # {} THEN CHOOSE k \in heads : \A h \in heads : k <= h
          ELSE IF from < len THEN len ELSE from
    BY DEF find_packet_head
<1>2. heads \subseteq Nat
    OBVIOUS
<1>3. CASE heads # {}
  <2>1. \E k \in heads : \A h \in heads : k <= h
      BY <1>2, <1>3, LeastOf
  <2> HIDE DEF heads, n
  <2>2. n = CHOOSE k \in heads : \A h \in heads : k <= h
      BY <1>1, <1>3
  <2>3. n \in heads /\ \A h \in heads : n <= h
      BY <2>1, <2>2
  <2> QED
      BY <2>3 DEF heads, n
<1>4. CASE heads = {}
  <2>1. \A h \in from..len - 1 : ~IsHead(h)
      BY <1>4
  <2> HIDE DEF heads, n
  <2>2. n = IF from < len THEN len ELSE from
      BY <1>1, <1>4
  <2>3. n \in Nat /\ n >= len /\ n >= from /\ (n = len \/ n = from)
      BY <2>2
  <2> QED
      BY <2>1, <2>3 DEF n
<1> QED
    BY <1>3, <1>4

LEMMA NoFrames == <<>> \in Seq([1..Cells -> Word])
OBVIOUS

\* The types, the stream, and what the steps of interprete_data know.
TypeInv ==
    /\ TypeOK /\ Stream /\ beyond \in Beyond
    /\ pc = "read" => len = 0 /\ frames = <<>> /\ ~overrun
    /\ pc = "packet" => index < len /\ IsHead(index)

LEMMA TypeInit == Init => TypeInv
<1> SUFFICES ASSUME Init PROVE TypeInv
    OBVIOUS
<1>1. /\ stream \in Streams
      /\ start = 0 /\ len = 0 /\ beyond \in Beyond /\ index = 0 /\ frames = <<>>
      /\ overrun = FALSE /\ pc = "read"
    BY DEF Init, Streams
<1>2. MaxPackets \in Nat /\ DOMAIN stream = 1..MaxPackets /\ BufSize \in Nat
    BY Zenon, <1>1, ConstantFact DEF Streams
<1>3. Len(stream) = MaxPackets
    BY <1>2
<1>4. Sent \in Nat
    BY <1>2, <1>3, LengthFact, Multiples DEF Sent
<1>5. Stream
    BY <1>1, <1>2, <1>4 DEF Stream
<1>6. start \in 0..Sent /\ len \in 0..BufSize /\ index \in 0..len + PacketLength
    BY <1>1, <1>2, <1>4, LengthFact
<1>7. overrun \in BOOLEAN /\ pc \in {"read", "find", "packet", "done"}
    BY <1>1
<1>8. TypeOK
    BY <1>1, <1>6, <1>7, NoFrames DEF TypeOK
<1> QED
    BY <1>1, <1>5, <1>8 DEF TypeInv

\* How heads, offsets and bytes of a read stay the same while it is decoded.
Frame == UNCHANGED <<stream, start, len, beyond>>

LEMMA FrameFact ==
    ASSUME Frame
    PROVE  /\ Stream' = Stream /\ Sent' = Sent
           /\ \A k : Byte(k)' = Byte(k) /\ IsHead(k)' = IsHead(k) /\ Offset(k)' = Offset(k)
           /\ FalseHead' = FalseHead
BY DEF Frame, Stream, Sent, Byte, IsHead, Offset, FalseHead

LEMMA TypeNext == TypeInv /\ [Next]_vars => TypeInv'
<1> SUFFICES ASSUME TypeInv, [Next]_vars PROVE TypeInv'
    OBVIOUS
<1>1. /\ Stream /\ beyond \in Beyond /\ start \in 0..Sent /\ len \in 0..BufSize
      /\ index \in 0..len + PacketLength /\ frames \in Seq([1..Cells -> Word])
      /\ overrun \in BOOLEAN /\ pc \in {"read", "find", "packet", "done"}
    BY DEF TypeInv, TypeOK
<1>2. /\ BufSize \in Nat /\ PacketLength \in Nat /\ Sent \in Nat /\ start \in Nat /\ len \in Nat
      /\ index \in Nat /\ len <= BufSize /\ start + len <= Sent
  <2>1. BufSize \in Nat
      BY Zenon, ConstantFact
  <2>2. Sent \in Nat
    <3>1. MaxPackets \in Nat /\ Len(stream) = MaxPackets
        BY <1>1, StreamFact
    <3> QED
        BY <3>1, LengthFact, Multiples DEF Sent
  <2> QED
      BY <1>1, <2>1, <2>2, LengthFact DEF Stream
<1>3. ASSUME NEW n \in 1..BufSize, Read(n) PROVE TypeInv'
  <2>1. /\ pc = "read" /\ start + n <= Sent /\ len' = n /\ index' = 0 /\ frames' = <<>>
        /\ overrun' = FALSE /\ pc' = "find" /\ UNCHANGED <<stream, start, beyond>>
      BY <1>3 DEF Read
  <2>2. Sent' = Sent
      BY <2>1 DEF Sent
  <2>3. n \in Nat /\ n <= BufSize
      BY <1>2
  <2>4. Stream'
      BY <1>1, <1>2, <2>1, <2>2, <2>3 DEF Stream
  <2>5. start' \in 0..Sent' /\ len' \in 0..BufSize /\ index' \in 0..len' + PacketLength
      BY <1>1, <1>2, <2>1, <2>2, <2>3
  <2>6. overrun' \in BOOLEAN /\ pc' \in {"read", "find", "packet", "done"}
      BY <2>1
  <2>7. TypeOK'
      BY <2>1, <2>5, <2>6, NoFrames DEF TypeOK
  <2> QED
      BY <1>1, <2>1, <2>4, <2>7 DEF TypeInv
<1>4. CASE Find
  <2>1. /\ pc = "find" /\ index' = find_packet_head(index)
        /\ pc' = IF index' < len THEN "packet" ELSE "done"
        /\ UNCHANGED <<stream, start, len, beyond, frames, overrun>>
      BY <1>4 DEF Find
  <2>2. Frame
      BY <2>1 DEF Frame
  <2>3. \/ index' \in index..len - 1 /\ IsHead(index')
        \/ index' \in Nat /\ index' >= len /\ (index' = len \/ index' = index)
      BY <1>2, <2>1, FindFact
  <2>4. index' \in 0..len + PacketLength
      BY <1>1, <1>2, <2>3
  <2>5. Stream' /\ Sent' = Sent /\ (IsHead(index') => IsHead(index)')
    <3>1. IsHead(index') => IsHead(index)'
        BY <2>2 DEF IsHead, Byte, Frame
    <3> QED
        BY <1>1, <2>2, <3>1, FrameFact
  <2>6. TypeOK'
      BY <1>1, <2>1, <2>4, <2>5 DEF TypeOK
  <2>7. pc' = "packet" => index' < len' /\ IsHead(index)'
      BY <1>2, <2>1, <2>3, <2>5
  <2> QED
      BY <1>1, <2>1, <2>5, <2>6, <2>7 DEF TypeInv
<1>5. CASE Interpret
  <2> DEFINE t == [c \in 1..Cells |-> Reading(index, c)]
  <2>1. /\ pc = "packet" /\ index' = index + PacketLength /\ pc' = "find"
        /\ frames' \in {frames, Append(frames, t)} /\ overrun' \in BOOLEAN
        /\ UNCHANGED <<stream, start, len, beyond>>
      BY <1>1, <1>5 DEF Interpret
  <2>2. Frame
      BY <2>1 DEF Frame
  <2>3. t \in [1..Cells -> Word]
      BY <1>1, <1>2, ReadingType
  <2> HIDE DEF t
  <2>4. frames' \in Seq([1..Cells -> Word])
    <3> DEFINE D == [1..Cells -> Word]
    <3>1. frames \in Seq(D) /\ t \in D
        BY <1>1, <2>3
    <3> HIDE DEF D
    <3>2. frames' \in Seq(D)
        BY <2>1, <3>1
    <3> QED
        BY <3>2 DEF D
  <2>5. index < len
      BY <2>1 DEF TypeInv
  <2>6. index' \in 0..len + PacketLength
      BY <1>2, <2>1, <2>5
  <2>7. Stream' /\ Sent' = Sent
      BY <1>1, <2>2, FrameFact
  <2>8. TypeOK'
      BY <1>1, <2>1, <2>4, <2>6, <2>7 DEF TypeOK
  <2> QED
      BY <1>1, <2>1, <2>7, <2>8 DEF TypeInv
<1>6. CASE Done
  <2>1. /\ start' = start + len /\ len' = 0 /\ index' = 0 /\ frames' = <<>> /\ overrun' = FALSE
        /\ pc' = "read" /\ UNCHANGED <<stream, beyond>>
      BY <1>6 DEF Done
  <2>2. Sent' = Sent
      BY <2>1 DEF Sent
  <2>3. Stream'
      BY <1>1, <1>2, <2>1, <2>2 DEF Stream
  <2>4. start' \in 0..Sent' /\ len' \in 0..BufSize /\ index' \in 0..len' + PacketLength
      BY <1>1, <1>2, <2>1, <2>2
  <2>5. overrun' \in BOOLEAN /\ pc' \in {"read", "find", "packet", "done"}
      BY <2>1
  <2>6. TypeOK'
      BY <2>1, <2>4, <2>5, NoFrames DEF TypeOK
  <2> QED
      BY <1>1, <2>1, <2>3, <2>6 DEF TypeInv
<1>7. CASE UNCHANGED vars
  <2>1. Frame /\ UNCHANGED <<index, frames, overrun, pc>>
      BY <1>7 DEF vars, Frame
  <2>2. Stream' = Stream /\ Sent' = Sent /\ UNCHANGED <<start, len, beyond>>
      BY <2>1, FrameFact DEF Frame
  <2>3. IsHead(index)' = IsHead(index)
      BY <2>1 DEF IsHead, Byte, Frame
  <2> QED
      BY <2>1, <2>2, <2>3 DEF TypeInv, TypeOK
<1> QED
    BY <1>3, <1>4, <1>5, <1>6, <1>7 DEF Next

\* Every variable of the decoder keeps its type: indices never run further than
\* one packet behind the read (interprete_data).
THEOREM TypeCorrect == Spec => []TypeOK
<1>1. TypeInv => TypeOK
    BY DEF TypeInv
<1> QED
    BY <1>1, TypeInit, TypeNext, PTL DEF Spec
-----------------------------------------------------------------------------
(* What interprete_packet makes of the bytes behind a head.                *)

\* Where a packet begins, a temperature whose bytes were read is that of the packet.
LEMMA ReadingFact ==
    ASSUME Stream, NEW p \in DOMAIN stream, 0 <= Offset(p),
           NEW c \in 1..Cells, Offset(p) + 4 + 2 * c < len
    PROVE  Reading(Offset(p), c) = stream[p].frame[c]
<1>1. /\ Offset(p) \in Int /\ len \in Int /\ Cells \in Nat /\ PacketLength = 6 + 2 * Cells
      /\ c \in Int /\ 1 <= c /\ c <= Cells
    BY NumberFact, OffsetFact, LengthFact DEF Stream, PacketLength
<1>2. /\ 3 + 2 * c \in 0..PacketLength - 1 /\ 4 + 2 * c \in 0..PacketLength - 1
      /\ 0 <= Offset(p) + (3 + 2 * c) /\ Offset(p) + (3 + 2 * c) < len
      /\ 0 <= Offset(p) + (4 + 2 * c) /\ Offset(p) + (4 + 2 * c) < len
      /\ Offset(p) + 5 + 2 * (c - 1) = Offset(p) + (3 + 2 * c)
      /\ Offset(p) + 6 + 2 * (c - 1) = Offset(p) + (4 + 2 * c)
    BY <1>1
<1> DEFINE t == stream[p].frame[c]
<1>3. Byte(Offset(p) + (3 + 2 * c)) = t % 256
  <2>1. Byte(Offset(p) + (3 + 2 * c)) = PacketByte(stream[p], 3 + 2 * c)
      BY <1>2, BytesOfPacket
  <2> QED
      BY <2>1, TemperatureBytes
<1>4. Byte(Offset(p) + (4 + 2 * c)) = t \div 256
  <2>1. Byte(Offset(p) + (4 + 2 * c)) = PacketByte(stream[p], 4 + 2 * c)
      BY <1>2, BytesOfPacket
  <2> QED
      BY <2>1, TemperatureBytes
<1>5. t \in Nat
  <2>1. t \in Word
      BY PacketFact
  <2> HIDE DEF t
  <2> QED
      BY <2>1 DEF Word
<1> HIDE DEF t
<1>6. Reading(Offset(p), c) = (t % 256) + 256 * (t \div 256)
    BY <1>2, <1>3, <1>4 DEF Reading
<1>7. (t % 256) + 256 * (t \div 256) = t
    BY <1>5, BytesOfNumber
<1> QED
    BY <1>6, <1>7 DEF t

\* One byte behind, its high byte is the low byte of the temperature after it.
LEMMA FalseReading ==
    ASSUME Stream, beyond \in Beyond, NEW p \in DOMAIN stream, 0 <= Offset(p) + 1,
           NEW c \in 1..Cells - 1, Offset(p) + 1 + 4 + 2 * c < len,
           stream[p].frame[c + 1] % 256 # 0
    PROVE  Reading(Offset(p) + 1, c) >= 150
<1>1. /\ Offset(p) \in Int /\ len \in Int /\ Cells \in Nat /\ PacketLength = 6 + 2 * Cells
      /\ c \in Int /\ 1 <= c /\ c <= Cells - 1
    BY NumberFact, OffsetFact, LengthFact DEF Stream, PacketLength
<1>2. /\ c + 1 \in 1..Cells /\ 3 + 2 * (c + 1) \in 0..PacketLength - 1
      /\ 0 <= Offset(p) + (3 + 2 * (c + 1)) /\ Offset(p) + (3 + 2 * (c + 1)) < len
      /\ (Offset(p) + 1) + 6 + 2 * (c - 1) = Offset(p) + (3 + 2 * (c + 1))
      /\ (Offset(p) + 1) + 5 + 2 * (c - 1) \in Nat
    BY <1>1
<1>3. Byte(Offset(p) + (3 + 2 * (c + 1))) = stream[p].frame[c + 1] % 256
  <2>1. Byte(Offset(p) + (3 + 2 * (c + 1))) = PacketByte(stream[p], 3 + 2 * (c + 1))
      BY <1>2, BytesOfPacket
  <2> QED
      BY <1>2, <2>1, TemperatureBytes
<1> DEFINE a == Byte((Offset(p) + 1) + 5 + 2 * (c - 1))
           b == Byte((Offset(p) + 1) + 6 + 2 * (c - 1))
<1>4. IsByte(a) /\ IsByte(b)
  <2>1. (Offset(p) + 1) + 6 + 2 * (c - 1) \in Nat
      BY <1>1
  <2> QED
      BY <1>2, <2>1, ByteType
<1>5. b # 0
    BY <1>2, <1>3
<1>6. Reading(Offset(p) + 1, c) = a + 256 * b
    BY DEF Reading
<1> HIDE DEF a, b
<1> QED
    BY <1>4, <1>5, <1>6, NumberOfBytes

LEMMA CardinalityOfTwo ==
    ASSUME NEW S, IsFiniteSet(S), NEW x \in S, NEW y \in S, x # y
    PROVE  Cardinality(S) >= 2
<1>1. IsFiniteSet({x}) /\ Cardinality({x}) = 1 /\ y \notin {x}
    BY FS_Singleton
<1>2. IsFiniteSet({x} \cup {y}) /\ Cardinality({x} \cup {y}) = 2
    BY <1>1, FS_AddElement
<1>3. Cardinality({x} \cup {y}) <= Cardinality(S)
    BY FS_Subset
<1>4. Cardinality(S) \in Nat
    BY FS_CardinalityType
<1> QED
    BY <1>2, <1>3, <1>4

\* So a frame read behind a false head is refused.
LEMMA FalseRefused ==
    ASSUME Stream, FramesAreVaried, beyond \in Beyond, NEW p \in DOMAIN stream,
           0 <= Offset(p) + 1, HasPacket(Offset(p) + 1)
    PROVE  ~Accepted([c \in 1..Cells |-> Reading(Offset(p) + 1, c)])
<1> DEFINE t == [c \in 1..Cells |-> Reading(Offset(p) + 1, c)]
           zero == {c \in 1..Cells : t[c] = 0}
           hot == {c \in 1..Cells : t[c] >= 150}
<1>1. /\ Offset(p) \in Int /\ len \in Int /\ Cells \in Nat /\ PacketLength = 6 + 2 * Cells
    BY NumberFact, OffsetFact, LengthFact DEF Stream, PacketLength
<1>2. len - (Offset(p) + 1) >= 3 + 2 * Cells
    BY <1>1 DEF HasPacket
<1>3. stream[p].frame \in Temperatures
    BY Zenon, PacketFact
<1>4. PICK c, e \in 2..Cells : /\ c # e /\ stream[p].frame[c] % 256 # 0
                               /\ stream[p].frame[e] % 256 # 0
    BY <1>3 DEF FramesAreVaried
<1>5. ASSUME NEW x \in 2..Cells, stream[p].frame[x] % 256 # 0
      PROVE  x - 1 \in hot
  <2>1. /\ x - 1 \in 1..Cells - 1 /\ (x - 1) + 1 = x /\ x - 1 \in 1..Cells
        /\ Offset(p) + 1 + 4 + 2 * (x - 1) < len
      BY <1>1, <1>2
  <2>2. Reading(Offset(p) + 1, x - 1) >= 150
      BY <1>5, <2>1, FalseReading
  <2> QED
      BY <2>1, <2>2
<1>6. c - 1 \in hot /\ e - 1 \in hot /\ c - 1 # e - 1
    BY <1>1, <1>4, <1>5
<1>7. IsFiniteSet(1..Cells)
    BY <1>1, FS_Interval
<1>8. IsFiniteSet(zero) /\ IsFiniteSet(hot)
    BY <1>7, FS_Subset
<1>9. Cardinality(zero) \in Nat /\ Cardinality(hot) \in Nat
    BY <1>8, FS_CardinalityType
<1>10. Invalid(t) = 2 * Cardinality(zero) + Cardinality(hot)
    BY DEF Invalid
<1> HIDE DEF zero, hot, t
<1>11. Cardinality(hot) >= 2
    BY <1>6, <1>8, CardinalityOfTwo
<1>12. ~(Invalid(t) < 2)
    BY <1>9, <1>10, <1>11
<1> QED
    BY <1>12 DEF Accepted, t
-----------------------------------------------------------------------------
(* Frames are those of the sensor.                                         *)

\* FramesAreSent, of one frame.
IsSent(f) ==
    \E p \in DOMAIN stream :
        /\ Offset(p) \in 0..len - 1
        /\ \A c \in 1..Cells - 1 : f[c] = stream[p].frame[c]

LEMMA SentNext ==
    ASSUME TypeInv, FramesAreSent, HighBytesAreNoStars, FramesAreVaried, [Next]_vars
    PROVE  FramesAreSent'
<1>1. /\ Stream /\ beyond \in Beyond /\ index \in Nat /\ len \in Nat /\ PacketLength \in Nat
      /\ frames \in Seq([1..Cells -> Word])
    BY LengthFact DEF TypeInv, TypeOK, Stream
<1>2. ASSUME frames' = <<>> PROVE FramesAreSent'
    BY <1>2 DEF FramesAreSent
<1>3. ASSUME Frame, UNCHANGED frames PROVE FramesAreSent'
    BY <1>3 DEF FramesAreSent, Frame, Offset
<1>4. CASE Interpret
  <2> DEFINE t == [c \in 1..Cells |-> Reading(index, c)]
  <2>1. Frame /\ pc = "packet"
      BY <1>4 DEF Interpret, Frame
  <2>2. CASE HasPacket(index) /\ Accepted(t)
    <3>1. frames' = Append(frames, t)
        BY <1>4, <2>2 DEF Interpret
    <3>2. PICK p \in DOMAIN stream :
              index = Offset(p) \/ (index = Offset(p) + 1 /\ stream[p].th = Star)
        BY <1>1, <2>1, HeadIsPacket DEF TypeInv
    <3>3. index # Offset(p) + 1
        BY <1>1, <2>2, FalseRefused
    <3>4. index = Offset(p) /\ index < len
        BY <2>1, <3>2, <3>3 DEF TypeInv
    <3>5. ASSUME NEW c \in 1..Cells - 1 PROVE t[c] = stream[p].frame[c]
      <4>1. Cells \in Nat /\ PacketLength = 6 + 2 * Cells
          BY LengthFact DEF PacketLength
      <4>2. len - index >= 3 + 2 * Cells
          BY <2>2, <4>1 DEF HasPacket
      <4>3. c \in 1..Cells /\ Offset(p) + 4 + 2 * c < len
          BY <1>1, <3>4, <4>1, <4>2
      <4>4. Reading(Offset(p), c) = stream[p].frame[c]
          BY <1>1, <3>4, <4>3, ReadingFact
      <4> QED
          BY <3>4, <4>3, <4>4
    <3>6. Offset(p) \in 0..len - 1
        BY <1>1, <3>4
    <3> HIDE DEF t
    <3>7. IsSent(t)
        BY <3>5, <3>6 DEF IsSent
    <3>8. \A i \in DOMAIN frames : IsSent(frames[i])
        BY DEF FramesAreSent, IsSent
    <3>9. \A i \in DOMAIN frames' : IsSent(frames'[i])
      <4> TAKE i \in DOMAIN frames'
      <4>1. Len(frames') = Len(frames) + 1 /\ frames'[Len(frames) + 1] = t
            /\ \A k \in 1..Len(frames) : frames'[k] = frames[k]
          BY <1>1, <3>1
      <4>2. i \in 1..Len(frames) \/ i = Len(frames) + 1
          BY <1>1, <3>1
      <4>3. CASE i = Len(frames) + 1
          BY <3>7, <4>1, <4>3
      <4>4. CASE i \in 1..Len(frames)
        <5>1. i \in DOMAIN frames /\ frames'[i] = frames[i]
            BY <1>1, <4>1, <4>4
        <5> QED
            BY <3>8, <5>1
      <4> QED
          BY <4>2, <4>3, <4>4
    <3> QED
        BY <2>1, <3>9 DEF FramesAreSent, IsSent, Frame, Offset
  <2>3. CASE ~(HasPacket(index) /\ Accepted(t))
    <3>1. UNCHANGED frames
        BY <1>4, <2>3 DEF Interpret
    <3> QED
        BY <1>3, <2>1, <3>1
  <2> QED
      BY <2>2, <2>3
<1>5. ASSUME NEW n \in 1..BufSize, Read(n) PROVE FramesAreSent'
    BY <1>2, <1>5 DEF Read
<1>6. CASE Find
    BY <1>3, <1>6 DEF Find, Frame
<1>7. CASE Done
    BY <1>2, <1>7 DEF Done
<1>8. CASE UNCHANGED vars
    BY <1>3, <1>8 DEF vars, Frame
<1> QED
    BY <1>4, <1>5, <1>6, <1>7, <1>8 DEF Next

\* Every frame interprete_data returns is one the sensor sent in a packet that
\* begins in this read, but perhaps for its last temperature (114, 135).
THEOREM FramesWereSent ==
    ASSUME HighBytesAreNoStars, FramesAreVaried
    PROVE  Spec => []FramesAreSent
<1>1. Init => FramesAreSent
    BY DEF Init, FramesAreSent
<1>2. TypeInv /\ FramesAreSent /\ [Next]_vars => FramesAreSent'
    BY SentNext
<1> QED
    BY <1>1, <1>2, TypeInit, TypeNext, PTL DEF Spec
-----------------------------------------------------------------------------
(* What a read holds is decoded.                                           *)

\* The packets that must be decoded, those of them before k, and which one of
\* them p is.
Kept == {p \in Held : Accepted(stream[p].frame)}
KeptBefore(k) == {p \in Kept : Offset(p) < k}
Rank(p) == Cardinality({r \in Kept : r <= p})

\* The search stands where a packet begins, unless it has just begun or is over.
Aligned ==
    CASE pc = "find"   -> index = 0 \/ index >= len \/ \E p \in DOMAIN stream : index = Offset(p)
      [] pc = "packet" -> \E p \in DOMAIN stream : index = Offset(p)
      [] OTHER         -> index >= len

\* The packets before index have given their frames, and perhaps one cut short
\* by the end of the read has given one more.
Decoded ==
    /\ Len(frames) - Cardinality(KeptBefore(index)) \in 0..1
    /\ index < len => Len(frames) = Cardinality(KeptBefore(index))
    /\ \A p \in KeptBefore(index) : frames[Rank(p)] = stream[p].frame

\* Memory after the buffer has been read at the end of a read that filled it.
OverrunAtEnd ==
    overrun => /\ len >= BufSize - 1
               /\ \E p \in DOMAIN stream : len - Offset(p) \in PacketLength - 3..PacketLength - 2

\* The inductive invariant of HeldPacketsAreDecoded and OverrunNeedsLongRead.
DecodeInv == ~FalseHead /\ pc # "read" => Aligned /\ Decoded /\ OverrunAtEnd

LEMMA KeptFact ==
    ASSUME Stream
    PROVE  /\ IsFiniteSet(Kept)
           /\ \A p \in Kept : /\ p \in DOMAIN stream /\ p \in Int /\ Offset(p) \in Int
                              /\ 0 <= Offset(p) /\ Offset(p) + PacketLength - 1 <= len
<1>1. MaxPackets \in Nat /\ DOMAIN stream = 1..MaxPackets
    BY StreamFact
<1>2. IsFiniteSet(DOMAIN stream)
    BY <1>1, FS_Interval
<1>3. Kept \subseteq DOMAIN stream
    BY DEF Kept, Held
<1>4. IsFiniteSet(Kept)
    BY <1>2, <1>3, FS_Subset
<1>5. ASSUME NEW p \in Kept
      PROVE  /\ p \in DOMAIN stream /\ p \in Int /\ Offset(p) \in Int
             /\ 0 <= Offset(p) /\ Offset(p) + PacketLength - 1 <= len
  <2>1. p \in DOMAIN stream /\ 0 <= Offset(p) /\ Offset(p) + PacketLength - 1 <= len
      BY DEF Kept, Held
  <2>2. p \in Int
      BY <2>1, NumberFact
  <2> QED
      BY <2>1, <2>2, OffsetFact
<1> QED
    BY <1>4, <1>5

LEMMA BeforeFact ==
    ASSUME Stream, NEW k
    PROVE  IsFiniteSet(KeptBefore(k)) /\ Cardinality(KeptBefore(k)) \in Nat
<1>1. KeptBefore(k) \subseteq Kept
    BY DEF KeptBefore
<1> QED
    BY <1>1, KeptFact, FS_Subset, FS_CardinalityType

\* Whoever lies before k has a rank among those before k.
LEMMA RankFact ==
    ASSUME Stream, NEW k \in Int, NEW p \in KeptBefore(k)
    PROVE  Rank(p) \in 1..Cardinality(KeptBefore(k))
<1> DEFINE S == {r \in Kept : r <= p}
<1>1. p \in Kept /\ Offset(p) < k
    BY DEF KeptBefore
<1>2. PacketLength \in Nat
    BY LengthFact
<1>3. ASSUME NEW r \in S PROVE r \in KeptBefore(k)
  <2>1. r \in Kept /\ r <= p /\ r \in Int /\ p \in Int /\ Offset(r) \in Int /\ Offset(p) \in Int
      BY <1>1, KeptFact
  <2>2. r < p => Offset(r) + PacketLength <= Offset(p)
      BY <2>1, OffsetFact
  <2>3. Offset(r) < k
    <3>1. CASE r = p
        BY <1>1, <3>1
    <3>2. CASE r < p
        BY <1>1, <1>2, <2>1, <2>2, <3>2
    <3> QED
        BY <2>1, <3>1, <3>2
  <2> QED
      BY <2>1, <2>3 DEF KeptBefore
<1>4. p \in S
    BY <1>1, KeptFact
<1> HIDE DEF S
<1>5. S \subseteq KeptBefore(k) /\ IsFiniteSet(KeptBefore(k))
    BY <1>3, BeforeFact
<1>6. Cardinality(S) <= Cardinality(KeptBefore(k)) /\ IsFiniteSet(S)
    BY <1>5, FS_Subset
<1>7. Cardinality(S) \in Nat /\ Cardinality(S) # 0
    BY <1>4, <1>6, FS_CardinalityType, FS_EmptySet
<1>8. Rank(p) = Cardinality(S)
    BY DEF Rank, S
<1> QED
    BY <1>6, <1>7, <1>8, BeforeFact

\* One packet on: it is behind those before it.
LEMMA BeforeNext ==
    ASSUME Stream, NEW p \in DOMAIN stream
    PROVE  /\ p \in Kept => /\ KeptBefore(Offset(p) + PacketLength) = KeptBefore(Offset(p)) \cup {p}
                            /\ p \notin KeptBefore(Offset(p))
                            /\ Rank(p) = Cardinality(KeptBefore(Offset(p))) + 1
           /\ p \notin Kept => KeptBefore(Offset(p) + PacketLength) = KeptBefore(Offset(p))
<1> DEFINE L == KeptBefore(Offset(p))
           M == KeptBefore(Offset(p) + PacketLength)
<1>1. p \in Int /\ Offset(p) \in Int /\ PacketLength \in Int /\ PacketLength >= 6
    BY NumberFact, OffsetFact, LengthFact
<1>2. ASSUME NEW r \in Kept
      PROVE  /\ r \in L <=> r < p
             /\ r \in M <=> r <= p
  <2>1. r \in Int /\ Offset(r) \in Int
      BY KeptFact
  <2>2. CASE r < p
    <3>1. Offset(r) + PacketLength <= Offset(p)
        BY <1>1, <2>1, <2>2, OffsetFact
    <3>2. Offset(r) < Offset(p) /\ Offset(r) < Offset(p) + PacketLength
        BY <1>1, <2>1, <3>1
    <3> QED
        BY <1>1, <2>1, <2>2, <3>2 DEF KeptBefore
  <2>3. CASE r = p
    <3>1. ~(Offset(r) < Offset(p)) /\ Offset(r) < Offset(p) + PacketLength
        BY <1>1, <2>3
    <3> QED
        BY <1>1, <2>3, <3>1 DEF KeptBefore
  <2>4. CASE p < r
    <3>1. Offset(p) + PacketLength <= Offset(r)
        BY <1>1, <2>1, <2>4, OffsetFact
    <3>2. ~(Offset(r) < Offset(p)) /\ ~(Offset(r) < Offset(p) + PacketLength)
        BY <1>1, <2>1, <3>1
    <3> QED
        BY <1>1, <2>1, <2>4, <3>2 DEF KeptBefore
  <2> QED
      BY <1>1, <2>1, <2>2, <2>3, <2>4
<1>3. L \subseteq Kept /\ M \subseteq Kept
    BY DEF KeptBefore
<1>4. IsFiniteSet(L) /\ Cardinality(L) \in Nat
    BY BeforeFact
<1>5. \A r \in Kept : r \in Int
    BY KeptFact
<1>6. Rank(p) = Cardinality({r \in Kept : r <= p})
    BY DEF Rank
<1> HIDE DEF L, M
<1>7. CASE p \in Kept
  <2>1. M = L \cup {p} /\ p \notin L
    <3>1. \A r \in Kept : r \in M <=> (r \in L \/ r = p)
        BY <1>1, <1>2, <1>5
    <3> QED
        BY <1>1, <1>2, <1>3, <1>7, <3>1
  <2>2. {r \in Kept : r <= p} = M
      BY <1>2, <1>3
  <2>3. Cardinality(L \cup {p}) = Cardinality(L) + 1
      BY <1>4, <2>1, FS_AddElement
  <2> QED
      BY <1>6, <1>7, <2>1, <2>2, <2>3 DEF L, M
<1>8. CASE p \notin Kept
  <2>1. \A r \in Kept : r \in M <=> r \in L
      BY <1>1, <1>2, <1>5, <1>8
  <2>2. M = L
      BY <1>3, <2>1
  <2> QED
      BY <1>8, <2>2 DEF L, M
<1> QED
    BY <1>7, <1>8

\* A head that is found next to a place where the search stands is a packet's.
LEMMA FindAligned ==
    ASSUME Stream, HighBytesAreNoStars, ~FalseHead, NEW from \in Nat, NEW n \in Nat,
           from = 0 \/ from >= len \/ \E p \in DOMAIN stream : from = Offset(p),
           n \in from..len - 1, IsHead(n), \A h \in from..len - 1 : IsHead(h) => n <= h
    PROVE  \E p \in DOMAIN stream : n = Offset(p)
<1>1. PICK p \in DOMAIN stream : n = Offset(p) \/ (n = Offset(p) + 1 /\ stream[p].th = Star)
    BY HeadIsPacket
<1>2. /\ p \in Int /\ Offset(p) \in Int /\ len \in Int /\ PacketLength \in Int /\ PacketLength >= 6
      /\ n + 2 < len /\ from <= n
    BY NumberFact, OffsetFact, LengthFact DEF Stream, IsHead
<1> SUFFICES ASSUME n = Offset(p) + 1, stream[p].th = Star PROVE FALSE
    BY <1>1
<1>3. ~(from <= Offset(p))
  <2> SUFFICES ASSUME from <= Offset(p) PROVE FALSE
      OBVIOUS
  <2>1. 0 <= Offset(p) /\ Offset(p) + 2 < len /\ Offset(p) \in from..len - 1
      BY <1>2
  <2>2. IsHead(Offset(p))
      BY <2>1, PacketHasHead
  <2>3. n <= Offset(p)
      BY <2>1, <2>2
  <2> QED
      BY <1>2, <2>3
<1>4. from = Offset(p) + 1
    BY <1>2, <1>3
<1>5. CASE from = 0
  <2>1. Offset(p) = -1
      BY <1>2, <1>4, <1>5
  <2> QED
      BY <2>1 DEF FalseHead
<1>6. CASE from >= len
    BY <1>2, <1>6
<1>7. ASSUME NEW r \in DOMAIN stream, from = Offset(r) PROVE FALSE
  <2>1. r \in Int /\ 0 \in 0..PacketLength - 1 /\ 1 \in 0..PacketLength - 1
      BY <1>2, NumberFact
  <2>2. Offset(r) \in Int
      BY <2>1, OffsetFact
  <2>3. Offset(r) + 0 = Offset(p) + 1
      BY <1>4, <1>7, <2>2
  <2>4. 0 = 1
      BY <1>2, <2>1, <2>3, PlaceIsUnique
  <2> QED
      BY <2>4
<1> QED
    BY <1>5, <1>6, <1>7

\* The search passes no packet that is held.
LEMMA FindPassesNone ==
    ASSUME Stream, NEW from \in Nat
    PROVE  KeptBefore(find_packet_head(from)) = KeptBefore(from)
<1> DEFINE n == find_packet_head(from)
<1>1. len \in Nat /\ PacketLength \in Nat /\ PacketLength >= 6
    BY LengthFact DEF Stream
<1>2. \/ /\ n \in from..len - 1 /\ IsHead(n)
         /\ \A h \in from..len - 1 : IsHead(h) => n <= h
      \/ /\ n \in Nat /\ n >= len /\ n >= from /\ (n = len \/ n = from)
         /\ \A h \in from..len - 1 : ~IsHead(h)
    BY <1>1, FindFact
<1> HIDE DEF n
<1>3. ASSUME NEW p \in Kept PROVE Offset(p) < n <=> Offset(p) < from
  <2>1. /\ p \in DOMAIN stream /\ Offset(p) \in Int /\ 0 <= Offset(p)
        /\ Offset(p) + PacketLength - 1 <= len
      BY KeptFact
  <2>2. Offset(p) + 2 < len
      BY <1>1, <2>1
  <2>3. IsHead(Offset(p))
      BY <2>1, <2>2, PacketHasHead
  <2>4. from <= Offset(p) => n <= Offset(p)
    <3> SUFFICES ASSUME from <= Offset(p) PROVE n <= Offset(p)
        OBVIOUS
    <3>1. Offset(p) \in from..len - 1
        BY <1>1, <2>1, <2>2
    <3>2. ~(\A h \in from..len - 1 : ~IsHead(h))
        BY <2>3, <3>1
    <3>3. \A h \in from..len - 1 : IsHead(h) => n <= h
        BY Zenon, <1>2, <3>2
    <3> QED
        BY <2>3, <3>1, <3>3
  <2>5. from <= n
      BY <1>1, <1>2
  <2>6. n \in Int
      BY <1>2
  <2> QED
      BY <2>1, <2>4, <2>5, <2>6
<1> QED
    BY <1>3 DEF KeptBefore, n

LEMMA DecodeFrame ==
    ASSUME Frame
    PROVE  /\ Kept' = Kept /\ \A k : KeptBefore(k)' = KeptBefore(k) /\ Rank(k)' = Rank(k)
           /\ (\E p \in DOMAIN stream : len - Offset(p) \in PacketLength - 3..PacketLength - 2)
                => (\E p \in DOMAIN stream : len - Offset(p) \in PacketLength - 3..PacketLength - 2)'
<1>1. stream' = stream /\ start' = start /\ len' = len
    BY DEF Frame
<1>2. Held' = Held /\ Kept' = Kept
    BY <1>1 DEF Kept, Held, Offset
<1>3. ASSUME NEW k PROVE KeptBefore(k)' = KeptBefore(k) /\ Rank(k)' = Rank(k)
    BY <1>1, <1>2 DEF KeptBefore, Rank, Offset
<1> QED
    BY <1>1, <1>2, <1>3 DEF Offset

\* Taking a packet.
LEMMA DecodeInterpret ==
    ASSUME TypeInv, HighBytesAreNoStars, Aligned, Decoded, OverrunAtEnd, Interpret
    PROVE  Aligned' /\ Decoded' /\ OverrunAtEnd'
<1> DEFINE t == [c \in 1..Cells |-> Reading(index, c)]
<1>1. /\ Stream /\ index \in Nat /\ len \in Nat /\ len <= BufSize /\ BufSize \in Nat
      /\ PacketLength \in Nat /\ PacketLength >= 6 /\ PacketLength = 6 + 2 * Cells /\ Cells \in Nat
      /\ frames \in Seq([1..Cells -> Word])
  <2>1. BufSize \in Nat
      BY Zenon, ConstantFact
  <2> QED
      BY <2>1, LengthFact DEF TypeInv, TypeOK, Stream, PacketLength
<1>2. /\ pc = "packet" /\ index' = index + PacketLength /\ pc' = "find"
      /\ Frame /\ UNCHANGED <<stream, start, len>>
    BY DEF Interpret, Frame
<1>3. PICK p \in DOMAIN stream : index = Offset(p)
    BY <1>2 DEF Aligned
<1>4. index < len
    BY <1>2 DEF TypeInv
<1>5. p \in Int /\ p \in 1..MaxPackets /\ MaxPackets \in Nat /\ DOMAIN stream = 1..MaxPackets
      /\ Offset(p) \in Int
  <2>1. p \in Int /\ p \in 1..MaxPackets
      BY <1>1, NumberFact
  <2>2. MaxPackets \in Nat /\ DOMAIN stream = 1..MaxPackets
      BY <1>1, StreamFact
  <2>3. Stream
      BY <1>1
  <2>4. Offset(p) \in Int
      BY <2>1, <2>3, OffsetFact
  <2> QED
      BY <2>1, <2>2, <2>4
<1>6. index' = Offset(p + 1) /\ Offset(p + 1) \in Int
  <2>1. Stream /\ p + 1 \in Int
      BY <1>1, <1>5
  <2>2. Offset(p + 1) = Offset(p) + PacketLength /\ Offset(p + 1) \in Int
      BY <1>5, <2>1, OffsetFact
  <2> QED
      BY <1>2, <1>3, <2>2
<1>7. Aligned'
  <2>1. CASE p = MaxPackets
    <3>1. index' >= len
        BY <1>1, <1>6, <2>1, OffsetFact
    <3> QED
        BY <1>2, <3>1 DEF Aligned
  <2>2. CASE p # MaxPackets
    <3>1. p + 1 \in DOMAIN stream
        BY <1>5, <2>2
    <3>2. Offset(p + 1)' = Offset(p + 1) /\ DOMAIN stream' = DOMAIN stream
        BY <1>2 DEF Offset
    <3>3. \E r \in DOMAIN stream' : index' = Offset(r)'
        BY <1>2, <1>6, <3>1, <3>2 DEF Offset
    <3> QED
        BY <1>2, <3>3 DEF Aligned
  <2> QED
      BY <2>1, <2>2
<1> DEFINE L == KeptBefore(index)
           n == Cardinality(L)
<1>8. n \in Nat /\ Len(frames) = n /\ \A r \in L : frames[Rank(r)] = stream[r].frame /\ Rank(r) \in 1..n
    BY <1>1, <1>4, BeforeFact, RankFact DEF Decoded
<1>9. ASSUME p \in Held PROVE t = stream[p].frame
  <2>1. Offset(p) + PacketLength - 1 <= len /\ 0 <= Offset(p)
      BY <1>9 DEF Held
  <2>2. ASSUME NEW c \in 1..Cells PROVE t[c] = stream[p].frame[c]
    <3>1. Offset(p) + 4 + 2 * c < len
        BY <1>1, <1>5, <2>1
    <3>2. Reading(Offset(p), c) = stream[p].frame[c]
        BY <1>1, <2>1, <3>1, ReadingFact
    <3> QED
        BY <1>3, <3>2
  <2>3. stream[p].frame \in [1..Cells -> Word]
      BY <1>1, PacketFact
  <2> HIDE DEF t
  <2>4. t = [c \in 1..Cells |-> t[c]]
      BY DEF t
  <2> QED
      BY <2>2, <2>3, <2>4
<1>10. Decoded'
  <2> DEFINE M == KeptBefore(index')
             m == Cardinality(M)
  <2>1. KeptBefore(index)' = M /\ \A r : Rank(r)' = Rank(r)
      BY <1>2, DecodeFrame DEF KeptBefore, Kept, Held, Frame, Offset
  <2>2. CASE p \in Kept
    <3>1. HasPacket(index)
      <4>1. Offset(p) + PacketLength - 1 <= len
          BY <1>1, <2>2, KeptFact
      <4> QED
          BY <1>1, <1>3, <4>1 DEF HasPacket
    <3>2. t = stream[p].frame
        BY <1>9, <2>2 DEF Kept
    <3>3. Accepted(t)
        BY <2>2, <3>2 DEF Kept
    <3>4. frames' = Append(frames, t)
        BY <3>1, <3>3 DEF Interpret
    <3>5. M = L \cup {p} /\ p \notin L /\ Rank(p) = n + 1
        BY <1>1, <1>2, <1>3, <2>2, BeforeNext
    <3>6. m = n + 1
        BY <1>1, <3>5, BeforeFact, FS_AddElement
    <3> HIDE DEF t, L, M, m, n
    <3>7. /\ Len(frames') = n + 1 /\ frames'[n + 1] = t
          /\ \A k \in 1..n : frames'[k] = frames[k]
        BY <1>1, <1>8, <3>4
    <3>8. ASSUME NEW r \in M PROVE frames'[Rank(r)] = stream[r].frame
      <4>1. CASE r = p
          BY <3>2, <3>5, <3>7, <4>1
      <4>2. CASE r \in L
          BY <1>8, <3>7, <4>2
      <4> QED
          BY <3>5, <4>1, <4>2
    <3>9. Len(frames') = m /\ m \in Nat
        BY <1>8, <3>6, <3>7
    <3> QED
        BY <1>2, <2>1, <3>8, <3>9 DEF Decoded, m
  <2>3. CASE p \notin Kept
    <3>1. M = L
        BY <1>1, <1>2, <1>3, <2>3, BeforeNext
    <3>2. CASE UNCHANGED frames
        BY <1>2, <1>8, <2>1, <3>1, <3>2 DEF Decoded
    <3>3. CASE HasPacket(index) /\ Accepted(t)
      <4>1. frames' = Append(frames, t)
          BY <3>3 DEF Interpret
      <4>2. index' >= len
        <5>1. p \notin Held
            BY <1>9, <2>3, <3>3 DEF Kept
        <5>2. ~(Offset(p) + PacketLength - 1 <= len)
            BY <1>1, <1>3, <5>1 DEF Held
        <5> QED
            BY <1>1, <1>2, <1>3, <1>5, <5>2
      <4> HIDE DEF t, L, M, m, n
      <4>3. /\ Len(frames') = n + 1
            /\ \A k \in 1..n : frames'[k] = frames[k]
          BY <1>1, <1>8, <4>1
      <4>4. ASSUME NEW r \in M PROVE frames'[Rank(r)] = stream[r].frame
          BY <1>8, <3>1, <4>3
      <4>5. m = n /\ ~(index' < len)
          BY <1>1, <1>2, <3>1, <4>2 DEF m, n
      <4> QED
          BY <1>2, <1>8, <2>1, <4>3, <4>4, <4>5 DEF Decoded, m
    <3> QED
        BY <3>2, <3>3 DEF Interpret
  <2> QED
      BY <2>2, <2>3
<1>11. OverrunAtEnd'
  <2>1. CASE overrun' = overrun
      BY <1>2, <2>1, DecodeFrame DEF OverrunAtEnd
  <2>2. CASE HasPacket(index) /\ overrun' = (overrun \/ index + 4 + 2 * Cells >= BufSize)
    <3>1. CASE overrun
        BY <1>2, <3>1, DecodeFrame DEF OverrunAtEnd
    <3>2. CASE index + 4 + 2 * Cells >= BufSize
      <4>1. len - index >= PacketLength - 3
          BY <2>2 DEF HasPacket
      <4>2. len >= BufSize - 1 /\ len - Offset(p) \in PacketLength - 3..PacketLength - 2
          BY <1>1, <1>3, <3>2, <4>1
      <4> QED
          BY <1>2, <4>2, DecodeFrame DEF OverrunAtEnd
    <3>3. CASE ~overrun /\ ~(index + 4 + 2 * Cells >= BufSize)
        BY <2>2, <3>3 DEF OverrunAtEnd
    <3> QED
        BY <3>1, <3>2, <3>3
  <2> QED
      BY <2>1, <2>2 DEF Interpret
<1> QED
    BY <1>7, <1>10, <1>11

LEMMA NoneBefore == Stream => KeptBefore(0) = {}
<1> SUFFICES ASSUME Stream, NEW p \in Kept PROVE ~(Offset(p) < 0)
    BY DEF KeptBefore
<1> QED
    BY KeptFact

LEMMA DecodeNext ==
    ASSUME TypeInv, HighBytesAreNoStars, DecodeInv, [Next]_vars
    PROVE  DecodeInv'
<1>1. /\ Stream /\ index \in Nat /\ len \in Nat /\ PacketLength \in Nat
      /\ frames \in Seq([1..Cells -> Word])
      /\ pc \in {"read", "find", "packet", "done"}
    BY LengthFact DEF TypeInv, TypeOK, Stream
<1>2. ASSUME NEW n \in 1..BufSize, Read(n) PROVE DecodeInv'
  <2>1. index' = 0 /\ frames' = <<>> /\ overrun' = FALSE /\ pc' = "find" /\ TypeInv'
      BY <1>2, TypeNext DEF Read, Next
  <2>2. Stream'
      BY <2>1 DEF TypeInv
  <2>3. (Stream => KeptBefore(0) = {})'
      BY NoneBefore, PTL
  <2>4. KeptBefore(index)' = {}
      BY <2>1, <2>2, <2>3 DEF KeptBefore
  <2>5. Decoded'
      BY <2>1, <2>4, FS_EmptySet DEF Decoded
  <2> QED
      BY <2>1, <2>5 DEF DecodeInv, Aligned, OverrunAtEnd
<1>3. CASE Find
  <2>1. /\ pc = "find" /\ index' = find_packet_head(index)
        /\ pc' = IF index' < len THEN "packet" ELSE "done"
        /\ Frame /\ UNCHANGED <<stream, start, len, frames, overrun>>
      BY <1>3 DEF Find, Frame
  <2> SUFFICES ASSUME ~FalseHead PROVE Aligned' /\ Decoded' /\ OverrunAtEnd'
      BY <2>1, FrameFact DEF DecodeInv
  <2>2. Aligned /\ Decoded /\ OverrunAtEnd
      BY <2>1 DEF DecodeInv
  <2>3. \/ /\ index' \in index..len - 1 /\ IsHead(index')
           /\ \A h \in index..len - 1 : IsHead(h) => index' <= h
        \/ index' \in Nat /\ index' >= len /\ (index' = len \/ index' = index)
      BY <1>1, <2>1, FindFact
  <2>4. Aligned'
    <3>1. CASE index' < len
      <4>1. index' \in index..len - 1 /\ IsHead(index')
            /\ (\A h \in index..len - 1 : IsHead(h) => index' <= h) /\ index' \in Nat
          BY <1>1, <2>3, <3>1
      <4>2. index = 0 \/ index >= len \/ \E p \in DOMAIN stream : index = Offset(p)
          BY <2>1, <2>2 DEF Aligned
      <4>3. \E p \in DOMAIN stream : index' = Offset(p)
          BY <1>1, <4>1, <4>2, FindAligned
      <4>4. \E p \in DOMAIN stream' : index' = Offset(p)'
          BY <2>1, <4>3 DEF Offset
      <4> QED
          BY <2>1, <3>1, <4>4 DEF Aligned
    <3>2. CASE ~(index' < len)
      <4>1. index' >= len
          BY <2>3, <1>1, <3>2
      <4> QED
          BY <2>1, <3>2, <4>1 DEF Aligned
    <3> QED
        BY <3>1, <3>2
  <2>5. Decoded'
    <3>1. KeptBefore(index)' = KeptBefore(index')
        BY <2>1 DEF KeptBefore, Kept, Held, Offset
    <3>2. KeptBefore(index') = KeptBefore(index)
        BY <1>1, <2>1, FindPassesNone
    <3>3. index' < len => index < len
        BY <1>1, <2>3
    <3> QED
        BY <2>1, <2>2, <3>1, <3>2, <3>3, DecodeFrame DEF Decoded
  <2>6. OverrunAtEnd'
      BY <2>1, <2>2, DecodeFrame DEF OverrunAtEnd
  <2> QED
      BY <2>4, <2>5, <2>6
<1>4. CASE Interpret
  <2>1. Frame /\ pc = "packet"
      BY <1>4 DEF Interpret, Frame
  <2> SUFFICES ASSUME ~FalseHead PROVE Aligned' /\ Decoded' /\ OverrunAtEnd'
      BY <2>1, FrameFact DEF DecodeInv
  <2>2. Aligned /\ Decoded /\ OverrunAtEnd
      BY <2>1 DEF DecodeInv
  <2> QED
      BY <1>4, <2>2, DecodeInterpret
<1>5. CASE Done
    BY <1>5 DEF Done, DecodeInv
<1>6. CASE UNCHANGED vars
  <2>1. Frame /\ UNCHANGED <<index, frames, overrun, pc>> /\ stream' = stream /\ len' = len
        /\ start' = start
      BY <1>6 DEF vars, Frame
  <2>2. Aligned' = Aligned /\ OverrunAtEnd' = OverrunAtEnd
      BY <2>1 DEF Aligned, OverrunAtEnd, Offset
  <2>3. Decoded' = Decoded
      BY <2>1 DEF Decoded, KeptBefore, Kept, Held, Rank, Offset
  <2> QED
      BY <2>1, <2>2, <2>3, FrameFact DEF DecodeInv
<1> QED
    BY <1>2, <1>3, <1>4, <1>5, <1>6 DEF Next

LEMMA DecodeHolds ==
    ASSUME HighBytesAreNoStars
    PROVE  Spec => [](TypeInv /\ DecodeInv)
<1>1. Init => DecodeInv
    BY DEF Init, DecodeInv
<1>2. TypeInv /\ DecodeInv /\ [Next]_vars => DecodeInv'
    BY DecodeNext
<1> QED
    BY <1>1, <1>2, TypeInit, TypeNext, PTL DEF Spec

\* Wherever reads begin and end, the packets one read holds whole are decoded,
\* in order, unless a thermistor byte makes up a false head; at most one frame
\* of a packet cut short follows (interprete_data, 129-144).
THEOREM HeldAreDecoded ==
    ASSUME HighBytesAreNoStars
    PROVE  Spec => []HeldPacketsAreDecoded
<1>1. TypeInv /\ DecodeInv => HeldPacketsAreDecoded
  <2> SUFFICES ASSUME TypeInv, DecodeInv, pc = "done", ~FalseHead
               PROVE  /\ Len(frames) - Cardinality(Kept) \in 0..1
                      /\ \A p \in Kept : frames[Rank(p)] = stream[p].frame
      BY DEF HeldPacketsAreDecoded, Kept, Rank
  <2>1. Stream /\ index \in Nat /\ len \in Nat /\ PacketLength \in Nat /\ PacketLength >= 6
      BY LengthFact DEF TypeInv, TypeOK, Stream
  <2>2. Aligned /\ Decoded
      BY DEF DecodeInv
  <2>3. index >= len
      BY <2>2 DEF Aligned
  <2>4. \A p \in Kept : Offset(p) < index
    <3> TAKE p \in Kept
    <3>1. Offset(p) \in Int /\ Offset(p) + PacketLength - 1 <= len
        BY <2>1, KeptFact
    <3> QED
        BY <2>1, <2>3, <3>1
  <2>5. KeptBefore(index) = Kept
      BY <2>4 DEF KeptBefore
  <2> QED
      BY <2>2, <2>5 DEF Decoded
<1> QED
    BY <1>1, DecodeHolds, PTL

\* Memory after the buffer is read only at the end of a read that filled the
\* buffer, or all but a byte of it, and was cut within the last temperature of
\* a packet (99-100, 135, 230).
THEOREM OverrunIsAtTheEnd ==
    ASSUME HighBytesAreNoStars
    PROVE  Spec => []OverrunNeedsLongRead
<1>1. TypeInv /\ DecodeInv => OverrunNeedsLongRead
  <2> SUFFICES ASSUME TypeInv, DecodeInv, overrun, ~FalseHead
               PROVE  /\ len >= BufSize - 1
                      /\ \E p \in DOMAIN stream :
                            len - Offset(p) \in PacketLength - 3..PacketLength - 2
      BY DEF OverrunNeedsLongRead
  <2>1. pc # "read"
      BY DEF TypeInv
  <2> QED
      BY <2>1 DEF DecodeInv, OverrunAtEnd
<1> QED
    BY <1>1, DecodeHolds, PTL
=============================================================================
