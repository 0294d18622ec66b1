---- MODULE SessionChannel ----
(***************************************************************************)
(* Session implements SendChannel.  The chunks pending on a session are    *)
(* those of its send queue not yet written, followed by those whose send   *)
(* handler is queued and by the one that is about to be posted.            *)
(***************************************************************************)
EXTENDS Session, FiniteSets

\* The number of send handlers among the first n of q.
SendsIn(q, n) == Cardinality({i \in 1..n : q[i] \in SendHandlers})

\* The chunks of the send handlers of q, in their order.
ChunksOf(q) ==
  [k \in 1..SendsIn(q, Len(q)) |->
     q[CHOOSE i \in 1..Len(q) : q[i] \in SendHandlers /\ SendsIn(q, i) = k].chunk]

PendingOf(s) == Unwritten(s) \o ChunksOf(strand[s]) \o ChunksOf(outbox[s])

Pending == [s \in Sessions |-> PendingOf(s)]

ClosedSessions == {s \in Sessions : socket[s] = "closed"}

Channel == INSTANCE SendChannel WITH pending <- Pending, closed <- ClosedSessions

\* send() hands chunks to the network whole, once and in order of the calls,
\* and never after close(), however io threads and the owner interleave.
ImplementsSendChannel == Channel!Spec

====
