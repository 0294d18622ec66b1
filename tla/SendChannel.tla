---- MODULE SendChannel ----
(***************************************************************************)
(* What Session::send promises its callers: chunks reach the network       *)
(* whole, at most once and in the order of the calls, until the connection *)
(* is closed; from then on none does.                                      *)
(***************************************************************************)
EXTENDS Sequences

CONSTANTS Sessions, Chunks

VARIABLES
  pending,    \* chunks accepted by send() and not yet delivered
  delivered,  \* chunks given to the network
  closed      \* sessions whose connection is closed

vars == <<pending, delivered, closed>>

Init ==
  /\ pending = [s \in Sessions |-> <<>>]
  /\ delivered = [s \in Sessions |-> <<>>]
  /\ closed = {}

Accept(s, c) ==
  /\ pending' = [pending EXCEPT ![s] = Append(@, c)]
  /\ UNCHANGED <<delivered, closed>>

Deliver(s) ==
  /\ s \notin closed
  /\ pending[s] # <<>>
  /\ pending' = [pending EXCEPT ![s] = Tail(@)]
  /\ delivered' = [delivered EXCEPT ![s] = Append(@, Head(pending[s]))]
  /\ UNCHANGED closed

Close(s) ==
  /\ closed' = closed \cup {s}
  /\ UNCHANGED <<pending, delivered>>

Next ==
  \E s \in Sessions :
    Deliver(s) \/ Close(s) \/ \E c \in Chunks : Accept(s, c)

Spec == Init /\ [][Next]_vars

====
