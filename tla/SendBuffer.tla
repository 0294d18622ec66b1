---- MODULE SendBuffer ----
(***************************************************************************)
(* net::SendBufferManager, SendBuffer and SendBufferChunk (Network/        *)
(* Buffer.cpp) as MessageSerializer (Protocol/Serializer.h) uses them.     *)
(* Packets are written one behind the other into a shared buffer, each in  *)
(* the chunk that open() reserves for it.  A closed chunk is handed to the *)
(* send queues of sessions: io threads read its written bytes, without a   *)
(* lock, while the owner writes the next packets into the same buffer.     *)
(***************************************************************************)
EXTENDS Packets, Sequences

CONSTANT MaxChunks  \* bound: packets serialized

ASSUME MaxChunksAssumption == MaxChunks \in Nat

VARIABLES
  current,      \* m_currentBuffer, buffers being numbered as they are created
  chunkOffset,  \* its m_chunkOffset
  isClosed,     \* its m_closed
  chunks        \* the chunks opened so far

sendVars == <<current, chunkOffset, isClosed, chunks>>

\* No message of the protocol is larger than a buffer (open() asserts it).
Chunk == [buffer : Nat, from : Nat, size : PacketSizes, written : Nat]

SendInit ==
  /\ current = 1
  /\ chunkOffset = 0
  /\ isClosed = TRUE
  /\ chunks = <<>>

\* The current buffer has no room for size bytes.
FullButOne(size) == Size - chunkOffset < size - 1   \* variant: off by one

Full(size) == Size - chunkOffset < size

\* SendBufferManager::open(): the rest of a buffer too small is left unused.
Open(size) ==
  /\ isClosed
  /\ Len(chunks) < MaxChunks
  /\ current' = IF Full(size) THEN current + 1 ELSE current
  /\ chunkOffset' = IF Full(size) THEN 0 ELSE chunkOffset
  /\ isClosed' = FALSE
  /\ chunks' = Append(chunks, [buffer |-> current', from |-> chunkOffset',
                               size |-> size, written |-> 0])

Last == chunks[Len(chunks)]

\* SendBufferChunk::onWritten()
OnChunkWritten(n) ==
  /\ ~isClosed
  /\ n <= Last.size - Last.written
  /\ chunks' = [chunks EXCEPT ![Len(chunks)].written = @ + n]
  /\ UNCHANGED <<current, chunkOffset, isClosed>>

\* SendBufferChunk::close(): what was reserved and not written is given back.
CloseInPlace ==   \* variant: the offset is not moved
  /\ ~isClosed
  /\ isClosed' = TRUE
  /\ UNCHANGED <<current, chunkOffset, chunks>>

Close ==
  /\ ~isClosed
  /\ isClosed' = TRUE
  /\ chunkOffset' = chunkOffset + Last.written
  /\ UNCHANGED <<current, chunks>>

SendNext ==
  \/ \E size \in PacketSizes : Open(size)
  \/ \E n \in 1..Size : OnChunkWritten(n)
  \/ Close

SendSpec == SendInit /\ [][SendNext]_sendVars

----------------------------------------------------------------------------
\* The state has the shape of the C++ objects, and a chunk's bytes lie inside
\* its buffer.
SendTypeOK ==
  /\ current \in Nat
  /\ chunkOffset \in 0..Size
  /\ isClosed \in BOOLEAN
  /\ chunks \in Seq(Chunk)
  /\ \A i \in 1..Len(chunks) : /\ chunks[i].written <= chunks[i].size
                               /\ chunks[i].from + chunks[i].size <= Size

\* The bytes of a packet that a session may still have to send are never
\* written over: what any later chunk reserves in the same buffer lies behind
\* what was written of an earlier one.
SentIntact ==
  \A i, j \in 1..Len(chunks) :
    i < j /\ chunks[i].buffer = chunks[j].buffer =>
      chunks[i].from + chunks[i].written <= chunks[j].from

====
