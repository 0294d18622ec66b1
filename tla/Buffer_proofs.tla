---- MODULE Buffer_proofs ----
(***************************************************************************)
(* The invariants of the two buffers for every size of buffer and packet.  *)
(*                                                                         *)
(* ReceiveBuffer, for every capacity factor of at least two: whatever pops *)
(* do, a whole packet that starts at the read offset would end inside the  *)
(* buffer (FrontFits), because an offset is kept only while Size bytes are *)
(* left behind the write offset; and a read is issued only while the       *)
(* packet is incomplete (ReadingIsShort).  Both together leave room to     *)
(* complete it.                                                            *)
(*                                                                         *)
(* SendBuffer, for any number of packets: what was written in the current  *)
(* buffer lies before its offset, where the open chunk begins (Placed).    *)
(***************************************************************************)
EXTENDS ReceiveBuffer, SendBuffer, TLAPS

----------------------------------------------------------------------------
(* ReceiveBuffer *)

FrontFits == readOffset + front <= Capacity
ReadingIsShort == phase = "reading" => UnreadSize < front
WithinStream == taken + UnreadSize <= StreamLength

IInv == TypeOK /\ Intact /\ FrontFits /\ ReadingIsShort /\ WithinStream

\* The buffer has room for two packets of the largest size.
LEMMA CapacityFacts == Capacity \in Nat /\ Size + Size <= Capacity /\ Size \in Nat
BY PacketAssumption, FactorAssumption DEF Capacity

\* An empty buffer at the start of the stream satisfies the invariant.
LEMMA InitIInv == Init => IInv
<1> SUFFICES ASSUME Init PROVE IInv
  OBVIOUS
<1>1. front \in Nat /\ 1 <= front /\ front <= Size
  BY PacketAssumption, FactorAssumption DEF Init, PacketSizes
<1>2. TypeOK
  BY PacketAssumption, FactorAssumption, CapacityFacts DEF Init, TypeOK
<1>3. Intact /\ FrontFits /\ ReadingIsShort /\ WithinStream
  BY <1>1, PacketAssumption, FactorAssumption, CapacityFacts
  DEF Init, Intact, FrontFits, ReadingIsShort, WithinStream, UnreadSize
<1> QED
  BY <1>2, <1>3 DEF IInv

\* A socket read keeps the invariant.
LEMMA OnWrittenIInv == ASSUME IInv, NEW n \in 0..Capacity, OnWritten(n) PROVE IInv'
<1> USE CapacityFacts, PacketAssumption, FactorAssumption
<1>1. /\ n \in Nat /\ n <= UnwrittenSize
      /\ taken \in Nat /\ readOffset \in Nat /\ writeOffset \in Nat
      /\ readOffset <= writeOffset /\ writeOffset <= Capacity
      /\ taken + UnreadSize + n <= StreamLength
  BY DEF IInv, TypeOK, OnWritten, ReadSizes, UnwrittenSize
<1>2. buffer' \in [0..Capacity - 1 -> 0..StreamLength]
  <2>1. \A i \in writeOffset..writeOffset + n - 1 :
          taken + UnreadSize + (i - writeOffset) + 1 \in 0..StreamLength
    BY <1>1 DEF UnreadSize
  <2> QED
    BY <2>1 DEF IInv, TypeOK, OnWritten
<1>3. TypeOK'
  BY <1>1, <1>2 DEF IInv, TypeOK, OnWritten, UnwrittenSize
<1>4. Intact'
  <2>0. UnreadSize' = UnreadSize + n /\ readOffset' = readOffset /\ taken' = taken
    BY <1>1 DEF OnWritten, UnreadSize
  <2> SUFFICES ASSUME NEW i \in 0..(UnreadSize + n) - 1
               PROVE buffer'[readOffset + i] = taken + i + 1
    BY <2>0 DEF Intact
  <2>1. readOffset + i \in 0..Capacity - 1
    BY <1>1 DEF UnreadSize, UnwrittenSize
  <2>2. CASE i < UnreadSize
    <3>1. i \in 0..UnreadSize - 1 /\ ~(readOffset + i \in writeOffset..writeOffset + n - 1)
      BY <1>1, <2>2 DEF UnreadSize
    <3>2. buffer'[readOffset + i] = buffer[readOffset + i]
      BY <2>1, <3>1 DEF OnWritten
    <3> QED
      BY <3>1, <3>2 DEF IInv, Intact
  <2>3. CASE ~(i < UnreadSize)
    BY <1>1, <2>1, <2>3 DEF OnWritten, UnreadSize
  <2> QED
    BY <2>2, <2>3
<1>5. (FrontFits /\ ReadingIsShort /\ WithinStream)'
  BY <1>1 DEF IInv, FrontFits, ReadingIsShort, WithinStream, OnWritten, UnreadSize
<1> QED
  BY <1>3, <1>4, <1>5 DEF IInv

\* Taking the front packet, with or without the compaction, keeps it.
LEMMA PopFrontPacketIInv == ASSUME IInv, PopFrontPacket PROVE IInv'
<1> USE CapacityFacts, PacketAssumption, FactorAssumption
<1> DEFINE r == readOffset + front
<1>0. PICK next \in PacketSizes : front' = next
  BY DEF PopFrontPacket
<1> next \in Nat /\ next <= Size
  BY DEF PacketSizes
<1>1. /\ taken \in Nat /\ readOffset \in Nat /\ writeOffset \in Nat
      /\ front \in Nat /\ 1 <= front /\ front <= UnreadSize
      /\ readOffset <= writeOffset /\ writeOffset <= Capacity
      /\ taken + UnreadSize <= StreamLength
      /\ taken' = taken + front /\ phase' = "draining"
  BY DEF IInv, TypeOK, WithinStream, PopFrontPacket, HasFrontPacket, PacketSizes
<1>2. r \in Nat /\ 0 < r /\ r <= writeOffset
  BY <1>1 DEF UnreadSize
<1>3. \A i \in 0..(writeOffset - r) - 1 : buffer[r + i] = taken + front + i + 1
  <2> TAKE i \in 0..(writeOffset - r) - 1
  <2>1. front + i \in 0..UnreadSize - 1
    BY <1>1, <1>2 DEF UnreadSize
  <2>2. buffer[readOffset + (front + i)] = taken + (front + i) + 1
    BY <2>1 DEF IInv, Intact
  <2> QED
    BY <1>1, <2>2
<1>4. CASE r = writeOffset /\ readOffset' = 0 /\ writeOffset' = 0 /\ buffer' = buffer
  <2>1. UnreadSize' = UnreadSize - front /\ UnreadSize' = 0
    BY <1>1, <1>2, <1>4 DEF UnreadSize
  <2>2. TypeOK'
    BY <1>0, <1>1, <1>4 DEF IInv, TypeOK, UnreadSize
  <2>3. Intact' /\ ReadingIsShort'
    BY <1>1, <2>1 DEF Intact, ReadingIsShort
  <2>4. FrontFits' /\ WithinStream'
    BY <1>0, <1>1, <1>4, <2>1 DEF FrontFits, WithinStream, UnreadSize
  <2> QED
    BY <2>2, <2>3, <2>4 DEF IInv
<1>5. CASE /\ buffer' = MovedToFront(r)
           /\ writeOffset' = writeOffset - r /\ readOffset' = 0
  <2>1. \A i \in 0..Capacity - 1 : i < writeOffset - r => i + r \in 0..Capacity - 1
    BY <1>1, <1>2
  <2>2. buffer' \in [0..Capacity - 1 -> 0..StreamLength]
    BY <1>5, <2>1 DEF MovedToFront, IInv, TypeOK
  <2>3. TypeOK'
    BY <1>0, <1>1, <1>2, <1>5, <2>2 DEF TypeOK, UnreadSize
  <2>4. Intact'
    <3> SUFFICES ASSUME NEW i \in 0..(writeOffset - r) - 1
                 PROVE buffer'[i] = taken + front + i + 1
      BY <1>1, <1>2, <1>5 DEF Intact, UnreadSize
    <3>1. i \in 0..Capacity - 1 /\ i < writeOffset - r /\ i + r = r + i
      BY <1>1, <1>2
    <3>2. buffer'[i] = buffer[r + i]
      BY <1>5, <3>1 DEF MovedToFront
    <3> QED
      BY <1>3, <3>2
  <2>5. (FrontFits /\ ReadingIsShort /\ WithinStream)'
    <3>1. UnreadSize' = UnreadSize - front
      BY <1>1, <1>2, <1>5 DEF UnreadSize
    <3>2. FrontFits'
      BY <1>0, <1>1, <1>5 DEF FrontFits
    <3>3. ReadingIsShort'
      BY <1>1 DEF ReadingIsShort
    <3>4. WithinStream'
      BY <1>1, <3>1 DEF WithinStream, UnreadSize
    <3> QED
      BY <3>2, <3>3, <3>4
  <2> QED
    BY <2>3, <2>4, <2>5 DEF IInv
<1>6. CASE /\ r # writeOffset /\ ~ShouldMove(r)
           /\ readOffset' = r /\ writeOffset' = writeOffset /\ buffer' = buffer
  <2>1. Size <= Capacity - writeOffset
    BY <1>1, <1>2, <1>6 DEF ShouldMove, UnwrittenSize
  <2>2. TypeOK'
    BY <1>0, <1>1, <1>2, <1>6 DEF IInv, TypeOK, UnreadSize
  <2>3. Intact'
    BY <1>1, <1>2, <1>3, <1>6 DEF Intact, UnreadSize
  <2>4. (FrontFits /\ ReadingIsShort /\ WithinStream)'
    <3>1. UnreadSize' = UnreadSize - front
      BY <1>1, <1>2, <1>6 DEF UnreadSize
    <3>2. FrontFits'
      BY <1>0, <1>1, <1>2, <1>6, <2>1 DEF FrontFits
    <3>3. ReadingIsShort'
      BY <1>1 DEF ReadingIsShort
    <3>4. WithinStream'
      BY <1>1, <3>1 DEF WithinStream, UnreadSize
    <3> QED
      BY <3>2, <3>3, <3>4
  <2> QED
    BY <2>2, <2>3, <2>4 DEF IInv
<1> QED
  BY <1>4, <1>5, <1>6 DEF PopFrontPacket, ResetOffsets

\* Asking for more bytes keeps it: the loop has just found the packet short.
LEMMA ReceiveIInv == ASSUME IInv, Receive PROVE IInv'
<1>1. UnreadSize < front
  BY PacketAssumption, FactorAssumption, CapacityFacts
  DEF IInv, TypeOK, Receive, HasFrontPacket, PacketSizes, UnreadSize
<1> QED
  BY <1>1 DEF IInv, TypeOK, Intact, FrontFits, ReadingIsShort, WithinStream,
              Receive, UnreadSize

\* IInv is an invariant of the receive buffer.
THEOREM Invariance == Spec => []IInv
<1>1. IInv /\ [Next]_vars => IInv'
  <2> SUFFICES ASSUME IInv, [Next]_vars PROVE IInv'
    OBVIOUS
  <2>1. CASE \E n \in 0..Capacity : OnWritten(n)
    BY <2>1, OnWrittenIInv
  <2>2. CASE PopFrontPacket
    BY <2>2, PopFrontPacketIInv
  <2>3. CASE Receive
    BY <2>3, ReceiveIInv
  <2>4. CASE UNCHANGED vars
    BY <2>4 DEF vars, IInv, TypeOK, Intact, FrontFits, ReadingIsShort,
                WithinStream, UnreadSize
  <2> QED
    BY <2>1, <2>2, <2>3, <2>4 DEF Next
<1> QED
  BY InitIInv, <1>1, PTL DEF Spec

\* The offsets stay inside the buffer, the read offset never passes the write
\* offset, for every size of buffer and packet.
THEOREM TypeCorrect == Spec => []TypeOK
<1>1. IInv => TypeOK
  BY DEF IInv
<1> QED
  BY Invariance, <1>1, PTL

\* Every read is issued with room for the rest of the packet being received.
THEOREM RoomForFrontHolds == Spec => []RoomForFront
<1>1. IInv => RoomForFront
  BY PacketAssumption, FactorAssumption, CapacityFacts
  DEF IInv, TypeOK, FrontFits, ReadingIsShort, RoomForFront, UnreadSize,
      UnwrittenSize, PacketSizes
<1> QED
  BY Invariance, <1>1, PTL

\* The bytes handed out are the peer's stream, whatever the compactions.
THEOREM IntactHolds == Spec => []Intact
<1>1. IInv => Intact
  BY DEF IInv
<1> QED
  BY Invariance, <1>1, PTL

----------------------------------------------------------------------------
(* SendBuffer *)

Placed ==
  /\ \A i \in 1..Len(chunks) :
       /\ chunks[i].buffer <= current
       /\ chunks[i].buffer = current /\ (isClosed \/ i # Len(chunks)) =>
            chunks[i].from + chunks[i].written <= chunkOffset
  /\ ~isClosed => /\ chunks # <<>>
                  /\ Last.buffer = current /\ Last.from = chunkOffset

SendIInv == SendTypeOK /\ SentIntact /\ Placed

\* The first buffer is empty.
LEMMA SendInitIInv == SendInit => SendIInv
BY PacketAssumption DEF SendInit, SendIInv, SendTypeOK, SentIntact, Placed

\* The new chunk lies behind all that was written in its buffer.
LEMMA OpenIInv == ASSUME SendIInv, NEW size \in PacketSizes, Open(size) PROVE SendIInv'
<1> DEFINE n == Len(chunks)
<1>1. SendTypeOK /\ SentIntact /\ Placed /\ isClosed /\ isClosed' = FALSE
  BY DEF SendIInv, Open
<1>2. size \in Nat /\ size <= Size /\ Size \in Nat /\ n \in Nat
  BY <1>1, PacketAssumption DEF PacketSizes, SendTypeOK
<1>3. PICK b \in Nat, f \in 0..Size :
        /\ current' = b /\ chunkOffset' = f /\ f + size <= Size
        /\ \/ b = current /\ f = chunkOffset
           \/ b = current + 1 /\ f = 0
  <2>1. current \in Nat /\ chunkOffset \in 0..Size /\ 0 \in 0..Size /\ current + 1 \in Nat
    BY <1>1, <1>2 DEF SendTypeOK
  <2>2. CASE Full(size)
    <3>1. current' = current + 1 /\ chunkOffset' = 0
      BY <2>2 DEF Open
    <3> QED
      BY <1>2, <2>1, <3>1
  <2>3. CASE ~Full(size)
    <3>1. current' = current /\ chunkOffset' = chunkOffset
      BY <2>3 DEF Open
    <3>2. chunkOffset + size <= Size
      BY <1>2, <2>1, <2>3 DEF Full
    <3> QED
      BY <2>1, <3>1, <3>2
  <2> QED
    BY <2>2, <2>3
<1> DEFINE c == [buffer |-> b, from |-> f, size |-> size, written |-> 0]
<1>4. chunks' = Append(chunks, c) /\ c \in Chunk
  BY <1>2, <1>3 DEF Open, Chunk
<1>5. /\ chunks' \in Seq(Chunk) /\ Len(chunks') = n + 1 /\ chunks'[n + 1] = c
      /\ \A i \in 1..n : chunks'[i] = chunks[i] /\ chunks[i] \in Chunk
  BY <1>1, <1>4 DEF SendTypeOK
<1>6. c.buffer = b /\ c.from = f /\ c.size = size /\ c.written = 0
  OBVIOUS
<1> HIDE DEF c, n
<1>7. ASSUME NEW i \in 1..n
      PROVE  /\ chunks[i].buffer \in Nat /\ chunks[i].from \in Nat
             /\ chunks[i].written \in Nat /\ chunks[i].buffer <= current
             /\ chunks[i].buffer = b => chunks[i].from + chunks[i].written <= f
  <2>1. /\ chunks[i].buffer \in Nat /\ chunks[i].from \in Nat /\ chunks[i].written \in Nat
    BY <1>5, <1>7 DEF Chunk
  <2>2. /\ chunks[i].buffer <= current
        /\ chunks[i].buffer = current => chunks[i].from + chunks[i].written <= chunkOffset
    BY <1>1, <1>7 DEF Placed, n
  <2> QED
    BY <1>1, <1>3, <2>1, <2>2 DEF SendTypeOK
<1>8. SendTypeOK'
  <2>1. ASSUME NEW i \in 1..n + 1
        PROVE  /\ chunks'[i].written <= chunks'[i].size
               /\ chunks'[i].from + chunks'[i].size <= Size
    <3>1. CASE i \in 1..n
      BY <1>1, <1>5, <3>1 DEF SendTypeOK, n
    <3>2. CASE i = n + 1
      BY <1>2, <1>3, <1>5, <1>6, <3>2
    <3> QED
      BY <1>2, <2>1, <3>1, <3>2
  <2> QED
    BY <1>1, <1>3, <1>5, <2>1 DEF SendTypeOK
<1>9. SentIntact'
  <2> SUFFICES ASSUME NEW i \in 1..Len(chunks'), NEW j \in 1..Len(chunks'), i < j,
                      chunks'[i].buffer = chunks'[j].buffer
               PROVE  chunks'[i].from + chunks'[i].written <= chunks'[j].from
    BY DEF SentIntact
  <2>1. CASE j \in 1..n
    BY <1>1, <1>2, <1>5, <2>1 DEF SentIntact, n
  <2>2. CASE j = n + 1
    <3>1. i \in 1..n /\ n \in Nat
      BY <1>2, <1>5, <2>2
    <3>2. chunks'[i] = chunks[i] /\ chunks'[j] = c
      BY <1>5, <2>2, <3>1
    <3> QED
      BY <1>6, <1>7, <3>1, <3>2
  <2> QED
    BY <1>2, <1>5, <2>1, <2>2
<1>10. Placed'
  <2>1. ASSUME NEW i \in 1..n + 1
        PROVE  /\ chunks'[i].buffer <= b
               /\ chunks'[i].buffer = b /\ i # n + 1 =>
                    chunks'[i].from + chunks'[i].written <= f
    <3>1. CASE i \in 1..n
      <4>1. chunks'[i] = chunks[i] /\ current \in Nat /\ (b = current \/ b = current + 1)
        BY <1>1, <1>3, <1>5, <3>1 DEF SendTypeOK
      <4> QED
        BY <1>3, <1>7, <3>1, <4>1
    <3>2. CASE i = n + 1
      BY <1>3, <1>5, <1>6, <3>2
    <3> QED
      BY <1>2, <2>1, <3>1, <3>2
  <2>2. chunks' # <<>> /\ Last' = c
    BY <1>2, <1>5 DEF Last
  <2> QED
    BY <1>1, <1>3, <1>5, <1>6, <2>1, <2>2 DEF Placed
<1> QED
  BY <1>8, <1>9, <1>10 DEF SendIInv

\* Writing into the open chunk stays inside what it reserved.
LEMMA OnChunkWrittenIInv == ASSUME SendIInv, NEW k \in 1..Size, OnChunkWritten(k) PROVE SendIInv'
<1> DEFINE n == Len(chunks)
<1>1. /\ SendTypeOK /\ SentIntact /\ Placed /\ ~isClosed /\ chunks # <<>>
      /\ UNCHANGED <<current, chunkOffset, isClosed>>
  BY DEF SendIInv, OnChunkWritten, Placed
<1>2. n \in Nat /\ n >= 1 /\ Size \in Nat
  BY <1>1, PacketAssumption DEF SendTypeOK
<1>3. /\ chunks[n] \in Chunk /\ chunks[n].written \in Nat /\ chunks[n].size \in Nat
      /\ chunks[n].from \in Nat
      /\ chunks[n].written + k <= chunks[n].size
  <2>1. chunks[n] \in Chunk
    BY <1>1, <1>2 DEF SendTypeOK
  <2>2. /\ chunks[n].written \in Nat /\ chunks[n].size \in Nat /\ chunks[n].from \in Nat
    BY <2>1, PacketAssumption DEF Chunk, PacketSizes
  <2>3. k <= chunks[n].size - chunks[n].written
    BY DEF OnChunkWritten, Last
  <2> QED
    BY <1>2, <2>1, <2>2, <2>3
<1> DEFINE c == [chunks[n] EXCEPT !.written = @ + k]
<1>4. /\ c \in Chunk /\ c.buffer = chunks[n].buffer /\ c.from = chunks[n].from
      /\ c.size = chunks[n].size /\ c.written = chunks[n].written + k
  BY <1>3 DEF Chunk
<1>5. chunks' = [chunks EXCEPT ![n] = c]
  BY DEF OnChunkWritten
<1> HIDE DEF c
<1>6. /\ chunks' \in Seq(Chunk) /\ Len(chunks') = n /\ chunks'[n] = c
      /\ \A i \in 1..n : i # n => chunks'[i] = chunks[i]
      /\ \A i \in 1..n : chunks[i] \in Chunk
  BY <1>1, <1>2, <1>4, <1>5 DEF SendTypeOK
<1> HIDE DEF n
<1>7. /\ \A i \in 1..n : /\ chunks'[i].buffer = chunks[i].buffer
                         /\ chunks'[i].from = chunks[i].from
                         /\ chunks'[i].size = chunks[i].size
                         /\ i # n => chunks'[i].written = chunks[i].written
  BY <1>4, <1>6
<1>8. SendTypeOK'
  BY <1>1, <1>3, <1>4, <1>6, <1>7 DEF SendTypeOK, n
<1>9. SentIntact'
  BY <1>1, <1>2, <1>6, <1>7 DEF SentIntact, n
<1>10. Placed'
  <2>1. Last' = c /\ chunks' # <<>>
    BY <1>2, <1>6 DEF Last
  <2> QED
    BY <1>1, <1>4, <1>6, <1>7, <2>1 DEF Placed, Last, n
<1> QED
  BY <1>8, <1>9, <1>10 DEF SendIInv

\* Closing moves the offset behind what was written.
LEMMA CloseIInv == ASSUME SendIInv, Close PROVE SendIInv'
<1> DEFINE n == Len(chunks)
<1>1. /\ SendTypeOK /\ SentIntact /\ Placed /\ ~isClosed /\ chunks # <<>>
      /\ isClosed' = TRUE /\ UNCHANGED <<current, chunks>>
  BY DEF SendIInv, Close, Placed
<1>2. n \in Nat /\ n >= 1 /\ Size \in Nat
  BY <1>1, PacketAssumption DEF SendTypeOK
<1>3. /\ chunks[n] \in Chunk /\ chunks[n].buffer = current /\ chunks[n].from = chunkOffset
      /\ chunks[n].written \in Nat /\ chunks[n].size \in Nat
      /\ chunks[n].written <= chunks[n].size /\ chunks[n].from + chunks[n].size <= Size
  <2>1. chunks[n] \in Chunk
    BY <1>1, <1>2 DEF SendTypeOK
  <2>2. chunks[n].written \in Nat /\ chunks[n].size \in Nat
    BY <2>1, PacketAssumption DEF Chunk, PacketSizes
  <2>3. chunks[n].buffer = current /\ chunks[n].from = chunkOffset
    BY <1>1 DEF Placed, Last
  <2>4. n \in 1..Len(chunks)
    BY <1>2
  <2>5. chunks[n].written <= chunks[n].size /\ chunks[n].from + chunks[n].size <= Size
    BY <1>1, <2>4 DEF SendTypeOK
  <2> QED
    BY <2>1, <2>2, <2>3, <2>5
<1>4. PICK f \in 0..Size : chunkOffset' = f /\ f = chunkOffset + chunks[n].written
  BY <1>1, <1>2, <1>3 DEF Close, Last, SendTypeOK
<1>5. ASSUME NEW i \in 1..n, chunks[i].buffer = current
      PROVE  chunks[i].from + chunks[i].written <= f
  <2>1. chunks[i].from \in Nat /\ chunks[i].written \in Nat
    <3>1. chunks[i] \in Chunk
      BY <1>1 DEF SendTypeOK
    <3> QED
      BY <3>1 DEF Chunk
  <2>2. CASE i = n
    BY <1>3, <1>4, <2>2
  <2>3. CASE i # n
    <3>1. chunks[i].from + chunks[i].written <= chunkOffset
      BY <1>1, <1>5, <2>3 DEF Placed
    <3>2. chunkOffset \in Nat /\ chunkOffset <= f
      <4>1. chunkOffset \in Nat
        BY <1>1, <1>2 DEF SendTypeOK
      <4> QED
        BY <1>3, <1>4, <4>1
    <3>3. f \in Nat
      BY <1>2, <1>4
    <3>4. chunks[i].from + chunks[i].written \in Nat
      BY <2>1
    <3> QED
      BY <3>1, <3>2, <3>3, <3>4
  <2> QED
    BY <2>2, <2>3
<1>6. SendTypeOK' /\ SentIntact'
  BY <1>1, <1>4 DEF SendTypeOK, SentIntact
<1>7. Placed'
  BY <1>1, <1>4, <1>5 DEF Placed
<1> QED
  BY <1>6, <1>7 DEF SendIInv

\* The inductive invariant.
THEOREM SendInvariance == SendSpec => []SendIInv
<1>1. ASSUME SendIInv, [SendNext]_sendVars PROVE SendIInv'
  <2>1. CASE UNCHANGED sendVars
    BY <1>1, <2>1 DEF sendVars, SendIInv, SendTypeOK, SentIntact, Placed, Last
  <2> QED
    BY <1>1, <2>1, OpenIInv, OnChunkWrittenIInv, CloseIInv DEF SendNext
<1> QED
  BY <1>1, SendInitIInv, PTL DEF SendSpec

\* Chunks lie inside their buffers.
THEOREM SendTypeCorrect == SendSpec => []SendTypeOK
<1>1. SendIInv => SendTypeOK
  BY DEF SendIInv
<1> QED
  BY <1>1, SendInvariance, PTL

\* Buffer.cpp: a packet on its way is never written over.
THEOREM SentStaysIntact == SendSpec => []SentIntact
<1>1. SendIInv => SentIntact
  BY DEF SendIInv
<1> QED
  BY <1>1, SendInvariance, PTL

====
