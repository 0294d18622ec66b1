---- MODULE ReceiveBuffer ----
(***************************************************************************)
(* net::ReceiveBuffer (Network/Buffer.h, Buffer.cpp) as a session uses it: *)
(* a linear buffer of Factor * Size bytes with a read and a write offset,  *)
(* into which socket reads put a byte stream and out of which whole        *)
(* packets are taken.  A byte is its position 1, 2, 3 ... in the stream    *)
(* the peer sends, 0 is a byte never written.                              *)
(***************************************************************************)
EXTENDS Packets

CONSTANTS
  Factor,         \* CapacityFactor; m_size is Size
  StreamLength    \* bound: bytes the peer sends

ASSUME FactorAssumption ==
  /\ Factor \in Nat /\ Factor >= 2
  /\ StreamLength \in Nat

Capacity == Size * Factor

VARIABLES
  buffer,       \* m_buffer
  readOffset,   \* m_readOffset
  writeOffset,  \* m_writeOffset
  taken,        \* bytes of the stream handed out as packets (ghost)
  front,        \* size of the packet that starts at stream byte taken + 1
  phase         \* who may touch the buffer: the socket read or the packet loop

vars == <<buffer, readOffset, writeOffset, taken, front, phase>>

UnwrittenSize == Capacity - writeOffset
UnreadSize == writeOffset - readOffset

Init ==
  /\ buffer = [i \in 0..Capacity - 1 |-> 0]
  /\ readOffset = 0
  /\ writeOffset = 0
  /\ taken = 0
  /\ front \in PacketSizes
  /\ phase = "reading"

\* The bytes a socket read delivers: anything from one byte up to the whole
\* window [getWritePtr(), getWritePtr() + getUnwrittenSize()).  A read into
\* an empty window completes at once with no byte.
ReadSizes == IF UnwrittenSize = 0 THEN {0} ELSE 1..UnwrittenSize

\* Session::onRead: the socket has filled n bytes, then onWritten(n).
OnWritten(n) ==
  /\ phase = "reading"
  /\ n \in ReadSizes
  /\ taken + UnreadSize + n <= StreamLength
  /\ buffer' = [i \in 0..Capacity - 1 |->
                  IF i \in writeOffset..writeOffset + n - 1
                  THEN taken + UnreadSize + (i - writeOffset) + 1
                  ELSE buffer[i]]
  /\ writeOffset' = writeOffset + n
  /\ phase' = "draining"
  /\ UNCHANGED <<readOffset, taken, front>>

\* Session::getFrontPacket: the header, then the size it names, is there.
HeaderIsEnough == HeaderSize <= UnreadSize   \* variant: the size is not looked at

HasFrontPacket == HeaderSize <= UnreadSize /\ front <= UnreadSize

\* memmove of the unread bytes to the front, the read offset being r.
ShortMove(r) ==   \* variant: one byte too few is moved
  [i \in 0..Capacity - 1 |->
     IF i + 1 < writeOffset - r THEN buffer[i + r] ELSE buffer[i]]

MovedToFront(r) ==
  [i \in 0..Capacity - 1 |->
     IF i < writeOffset - r THEN buffer[i + r] ELSE buffer[i]]

\* Something is gained, and less than Size bytes are left to write.
MoveWhenFull(r) == 0 < r /\ UnwrittenSize = 0   \* variant: no room is kept

ShouldMove(r) == 0 < r /\ UnwrittenSize < Size

\* resetOffsets() with the read offset advanced to r.
ResetOffsets(r) ==
  \/ /\ r = writeOffset
     /\ readOffset' = 0
     /\ writeOffset' = 0
     /\ UNCHANGED buffer
  \/ /\ r # writeOffset
     /\ ShouldMove(r)
     /\ buffer' = MovedToFront(r)
     /\ writeOffset' = writeOffset - r
     /\ readOffset' = 0
  \/ /\ r # writeOffset
     /\ ~ShouldMove(r)
     /\ readOffset' = r
     /\ UNCHANGED <<writeOffset, buffer>>

\* One turn of the packet loop: popFrontPacket() calls onRead(header->size).
\* The next packet of the stream may have any size.
PopFrontPacket ==
  /\ phase = "draining"
  /\ HasFrontPacket
  /\ ResetOffsets(readOffset + front)
  /\ taken' = taken + front
  /\ front' \in PacketSizes
  /\ UNCHANGED phase

\* The loop found no whole packet: Session::receive() asks for more bytes.
Receive ==
  /\ phase = "draining"
  /\ ~HasFrontPacket
  /\ phase' = "reading"
  /\ UNCHANGED <<buffer, readOffset, writeOffset, taken, front>>

Next ==
  \/ \E n \in 0..Capacity : OnWritten(n)
  \/ PopFrontPacket
  \/ Receive

Spec == Init /\ [][Next]_vars

----------------------------------------------------------------------------
\* The state has the shape of the C++ class: offsets within m_buffer, and the
\* read offset never passes the write offset (resetOffsets' assertion).
TypeOK ==
  /\ buffer \in [0..Capacity - 1 -> 0..StreamLength]
  /\ readOffset \in 0..Capacity
  /\ writeOffset \in readOffset..Capacity
  /\ taken \in 0..StreamLength
  /\ front \in PacketSizes
  /\ phase \in {"reading", "draining"}

\* Whenever a read is issued, the window behind the write offset holds the
\* whole rest of the packet that is being received.  Compacting too late (or
\* with too small a threshold) would leave a window into which the packet
\* can never be completed: the session would read zero bytes for ever.
RoomForFront ==
  phase = "reading" => /\ 0 < UnwrittenSize
                       /\ front - UnreadSize <= UnwrittenSize

\* The unread part of the buffer is always the next piece of the stream: no
\* byte is lost, repeated or moved wrongly by the compaction of resetOffsets.
Intact ==
  \A i \in 0..UnreadSize - 1 : buffer[readOffset + i] = taken + i + 1

====
