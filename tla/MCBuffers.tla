---- MODULE MCBuffers ----
(***************************************************************************)
(* The two buffers, which share their sizes and no state: a behaviour uses *)
(* one of them, so that TLC goes through their state spaces one behind the *)
(* other and not through the product.                                      *)
(***************************************************************************)
EXTENDS ReceiveBuffer, SendBuffer

VARIABLE used   \* the buffer that this behaviour is about

BuffersInit ==
  /\ Init
  /\ SendInit
  /\ used \in {"receive", "send"}

BuffersNext ==
  /\ UNCHANGED used
  /\ \/ used = "receive" /\ Next /\ UNCHANGED sendVars
     \/ used = "send" /\ SendNext /\ UNCHANGED vars

BuffersSpec == BuffersInit /\ [][BuffersNext]_<<vars, sendVars, used>>

====
