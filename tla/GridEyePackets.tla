--------------------------- MODULE GridEyePackets ---------------------------
(***************************************************************************)
(* Decoding the serial data of the Grid-EYE sensor: ReadFrameLive and      *)
(* interprete_data of src/src/GridEyeReader.cpp.                           *)
(*                                                                         *)
(* The sensor sends a stream of packets, ***, two thermistor bytes, Cells  *)
(* temperatures, low byte first, and one byte more; a read returns any     *)
(* piece of the stream up to the size of the buffer and is decoded on its  *)
(* own.  In the code Cells = 64, PacketLength = 134 and BufSize = 1024.    *)
(* Indices into the buffer count from 0, as in the code.                   *)
(***************************************************************************)
EXTENDS Integers, Sequences, FiniteSets

CONSTANTS
    Cells,          \* temperatures in a frame
    BufSize,        \* unsigned char buffer[1024], cleared before a read
    Temperatures,   \* the frames sent: tuples of Cells temperatures
    Thermistors,    \* the low byte of the thermistor
    Beyond,         \* what may lie in memory after the buffer
    MaxPackets      \* bound: packets sent

Word == 0..256 * 256 - 1    \* two bytes

ASSUME PacketAssumption ==
    /\ Cells \in Nat /\ BufSize \in Nat /\ MaxPackets \in Nat
    /\ Temperatures \subseteq [1..Cells -> Word]
    /\ Thermistors \subseteq 0..255 /\ Beyond \subseteq 0..255

Star == 42
PacketLength == 6 + 2 * Cells

\* Byte k of packet p, from 0: the last one is a line feed.
PacketByte(p, k) ==
    IF k <= 2 THEN Star
    ELSE IF k <= 4 THEN IF k = 3 THEN p.th ELSE 1
    ELSE IF k = PacketLength - 1 THEN 10
    ELSE LET t == p.frame[(k - 3) \div 2]
         IN  IF k % 2 = 1 THEN t % 256 ELSE t \div 256

VARIABLES
    stream,         \* the packets sent
    start,          \* bytes of the stream consumed before this read
    len,            \* the bytes of this read
    beyond,         \* the value of the bytes after the buffer
    index, frames,  \* variables of interprete_data
    overrun,        \* history: a byte after the buffer was used
    pc              \* read, find, packet, done

vars == <<stream, start, len, beyond, index, frames, overrun, pc>>

Sent == PacketLength * Len(stream)

Init ==
    /\ stream \in [1..MaxPackets -> [frame : Temperatures, th : Thermistors]]
    /\ start = 0 /\ len = 0 /\ beyond \in Beyond
    /\ index = 0 /\ frames = <<>> /\ overrun = FALSE
    /\ pc = "read"

\* buf[k]
Byte(k) ==
    IF k < len THEN PacketByte(stream[1 + ((start + k) \div PacketLength)], (start + k) % PacketLength)
    ELSE IF k < BufSize THEN 0 ELSE beyond

\* ReadFrameLive: ftdi_read_data returns n bytes, or nothing (then it is called
\* again for the next read).
Read(n) ==
    /\ pc = "read"
    /\ n \in 1..BufSize /\ start + n <= Sent
    /\ len' = n
    /\ index' = 0 /\ frames' = <<>> /\ overrun' = FALSE
    /\ pc' = "find"
    /\ UNCHANGED <<stream, start, beyond>>

IsHead(k) == k + 2 < len /\ \A j \in 0..2 : Byte(k + j) = Star

\* Mutant of find_packet_head: two stars make a head.
M_find_packet_headTwo(from) ==
    LET heads == {k \in from..len - 1 : k + 1 < len /\ \A j \in 0..1 : Byte(k + j) = Star}
    IN  IF heads = {} THEN len ELSE CHOOSE k \in heads : \A h \in heads : k <= h

\* find_packet_head: the first head at or after from; len, or from, if there is none.
find_packet_head(from) ==
    LET heads == {k \in from..len - 1 : IsHead(k)}
    IN  IF heads # {} THEN CHOOSE k \in heads : \A h \in heads : k <= h
        ELSE IF from < len THEN len ELSE from

Find ==
    /\ pc = "find"
    /\ index' = find_packet_head(index)
    /\ pc' = IF index' < len THEN "packet" ELSE "done"
    /\ UNCHANGED <<stream, start, len, beyond, frames, overrun>>

Reading(k, c) == Byte(k + 5 + 2 * (c - 1)) + 256 * Byte(k + 6 + 2 * (c - 1))

\* invalid_counter: a reading of 0 counts twice, one of 150 or more once.
Invalid(t) ==
    2 * Cardinality({c \in 1..Cells : t[c] = 0}) + Cardinality({c \in 1..Cells : t[c] >= 150})

\* Mutant of Accepted: no frame is refused.
M_AcceptedAll(t) == TRUE

Accepted(t) == Invalid(t) < 2

\* Mutant of HasPacket: one byte less is asked for.
M_HasPacketLess(k) == len - k >= PacketLength - 4

\* if(len - index >= 131): up to three bytes of the packet may be missing.
HasPacket(k) == len - k >= PacketLength - 3

\* interprete_packet, then index += PacketLength.
Interpret ==
    /\ pc = "packet"
    /\ LET t == [c \in 1..Cells |-> Reading(index, c)]
       IN  IF HasPacket(index)
           THEN /\ frames' = IF Accepted(t) THEN Append(frames, t) ELSE frames
                /\ overrun' = (overrun \/ index + 4 + 2 * Cells >= BufSize)
           ELSE UNCHANGED <<frames, overrun>>
    /\ index' = index + PacketLength
    /\ pc' = "find"
    /\ UNCHANGED <<stream, start, len, beyond>>

\* ReadFrameLive adds the frames to the buffer; the next read takes what follows.
Done ==
    /\ pc = "done"
    /\ start' = start + len
    /\ len' = 0 /\ index' = 0 /\ frames' = <<>> /\ overrun' = FALSE
    /\ pc' = "read"
    /\ UNCHANGED <<stream, beyond>>

Next == (\E n \in 1..BufSize : Read(n)) \/ Find \/ Interpret \/ Done

Spec == Init /\ [][Next]_vars
-----------------------------------------------------------------------------
TypeOK ==
    /\ start \in 0..Sent /\ len \in 0..BufSize
    /\ index \in 0..len + PacketLength
    /\ frames \in Seq([1..Cells -> Word])
    /\ overrun \in BOOLEAN
    /\ pc \in {"read", "find", "packet", "done"}

\* Where packet p begins in this read, and the packets all of whose data this
\* read holds.
Offset(p) == PacketLength * (p - 1) - start
Held == {p \in DOMAIN stream : Offset(p) >= 0 /\ Offset(p) + PacketLength - 1 <= len}

\* The read begins behind the first star of a packet whose thermistor byte makes
\* it three stars again.
FalseHead == \E p \in DOMAIN stream : Offset(p) = -1 /\ stream[p].th = Star

\* A packet that one read holds is decoded, in order, wherever the read begins
\* and ends, unless a thermistor byte makes up a false head: what the piece of
\* a packet before it, or other packets, contain never hides it.  At most one
\* frame more, of a packet cut short, follows (129-144).
HeldPacketsAreDecoded ==
    pc = "done" /\ ~FalseHead =>
        LET held == {p \in Held : Accepted(stream[p].frame)}
            Rank(p) == Cardinality({r \in held : r <= p})
        IN  /\ Len(frames) - Cardinality(held) \in 0..1
            /\ \A p \in held : frames[Rank(p)] = stream[p].frame

\* No frame is made up: each decoded frame is, except perhaps for its last
\* temperature, a frame sent in a packet that begins in this read, although
\* 131 bytes are taken for a packet and its data are 133 (114, 135).
FramesAreSent ==
    \A i \in DOMAIN frames : \E p \in DOMAIN stream :
        /\ Offset(p) \in 0..len - 1
        /\ \A c \in 1..Cells - 1 : frames[i][c] = stream[p].frame[c]

\* Memory after the buffer is read only when the read filled the buffer, or all
\* but one byte of it, and ended within the last temperature of a packet (99-100, 135, 230).
OverrunNeedsLongRead ==
    overrun /\ ~FalseHead =>
        /\ len >= BufSize - 1
        /\ \E p \in DOMAIN stream : len - Offset(p) \in PacketLength - 3..PacketLength - 2
=============================================================================
