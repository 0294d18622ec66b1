---- MODULE Queues ----
(***************************************************************************)
(* What the properties say of FIFO queues: whether an element of a set is  *)
(* queued, and whether more than one is.                                   *)
(***************************************************************************)
EXTENDS Integers, Sequences

Occurs(q, S) == \E i \in 1..Len(q) : q[i] \in S

AtMostOnce(q, S) ==
  \A i, j \in 1..Len(q) : q[i] \in S /\ q[j] \in S => i = j

====
