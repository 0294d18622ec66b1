---- MODULE Packets ----
(***************************************************************************)
(* The sizes of packets (Network/Packet.h).  The programs build every      *)
(* packet in a SendBuffer of SendBuffer::DefaultSize bytes, which is also  *)
(* ReceiveBuffer::DefaultSize, and a packet begins with its header.        *)
(***************************************************************************)
EXTENDS Integers

CONSTANTS
  Size,       \* DefaultSize of both buffers: the largest packet
  HeaderSize  \* sizeof(PacketHeader)

ASSUME PacketAssumption == Size \in Nat /\ HeaderSize \in 1..Size

PacketSizes == HeaderSize..Size

====
