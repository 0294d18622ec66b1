---- MODULE Session_proofs ----
(***************************************************************************)
(* The invariants of Session.tla for any set of sessions and chunks.       *)
(*                                                                         *)
(* Each of the read token, the close and the send queue is a protocol      *)
(* between the strand of one session, the owner and the operating system;  *)
(* they need each other: only the send queue's invariant says that a       *)
(* completed write has a chunk to deliver, only the close's says that a    *)
(* running session has no close() queued.  Three facts more make them      *)
(* inductive: the owner posts one handler at a time (OutboxOne), an        *)
(* operation is aborted only on a closed socket (AbortedLate), so that     *)
(* handleError ignores no error of a running session, and a session that   *)
(* does not exist yet has nothing pending (Fresh).                         *)
(*                                                                         *)
(* With them the last part proves that the sessions implement SendChannel: *)
(* each step is a send, a write or a close of the channel, or a stutter.   *)
(***************************************************************************)
EXTENDS SessionChannel, FiniteSetTheorems, SequenceTheorems, TLAPS

----------------------------------------------------------------------------
(* How Occurs and AtMostOnce change when a queue is pushed and popped. *)

\* Nothing occurs in an empty queue.
LEMMA OccursEmpty == \A S : ~Occurs(<<>>, S) /\ AtMostOnce(<<>>, S)
BY DEF Occurs, AtMostOnce

\* What occurs in a queue of one element.
LEMMA OccursSingle == \A S, h : Occurs(<<h>>, S) <=> h \in S
BY DEF Occurs

\* push_back adds the new element to what occurs.
LEMMA OccursAppend ==
  ASSUME NEW T, NEW q \in Seq(T), NEW h \in T, NEW S
  PROVE  Occurs(Append(q, h), S) <=> Occurs(q, S) \/ h \in S
<1> DEFINE r == Append(q, h)
<1>1. Len(r) = Len(q) + 1 /\ r[Len(q) + 1] = h /\ Len(q) \in Nat
  OBVIOUS
<1>2. \A i \in 1..Len(q) : r[i] = q[i]
  OBVIOUS
<1>3. Occurs(q, S) => Occurs(r, S)
  BY <1>1, <1>2 DEF Occurs
<1>4. h \in S => Occurs(r, S)
  BY <1>1 DEF Occurs
<1>5. Occurs(r, S) => Occurs(q, S) \/ h \in S
  <2> SUFFICES ASSUME NEW i \in 1..Len(r), r[i] \in S PROVE Occurs(q, S) \/ h \in S
    BY DEF Occurs
  <2>1. CASE i \in 1..Len(q)
    BY <2>1, <1>2 DEF Occurs
  <2>2. CASE i = Len(q) + 1
    BY <2>2, <1>1
  <2> HIDE DEF r
  <2> QED
    BY <1>1, <2>1, <2>2
<1> QED
  BY <1>3, <1>4, <1>5

\* push_back leaves the others where they are.
LEMMA AppendElements ==
  ASSUME NEW T, NEW q \in Seq(T), NEW h \in T
  PROVE  /\ Len(q) \in Nat /\ Len(Append(q, h)) = Len(q) + 1 /\ Append(q, h)[Len(q) + 1] = h
         /\ \A i \in 1..Len(q) : Append(q, h)[i] = q[i] /\ q[i] \in T
OBVIOUS

\* push_back of an element that is not in S, or the first that is.
LEMMA AtMostOnceAppend ==
  ASSUME NEW T, NEW q \in Seq(T), NEW h \in T, NEW S,
         AtMostOnce(q, S), h \in S => ~Occurs(q, S)
  PROVE  AtMostOnce(Append(q, h), S)
<1> DEFINE r == Append(q, h)
<1>1. Len(r) = Len(q) + 1 /\ r[Len(q) + 1] = h /\ Len(q) \in Nat
  OBVIOUS
<1>2. \A i \in 1..Len(q) : r[i] = q[i]
  OBVIOUS
<1> SUFFICES ASSUME NEW i \in 1..Len(r), NEW j \in 1..Len(r), r[i] \in S, r[j] \in S
             PROVE  i = j
  BY DEF AtMostOnce
<1> HIDE DEF r
<1>3. CASE i \in 1..Len(q) /\ j \in 1..Len(q)
  BY <1>2, <1>3 DEF AtMostOnce
<1>4. CASE i \in 1..Len(q) /\ j = Len(q) + 1
  BY <1>1, <1>2, <1>4 DEF Occurs
<1>5. CASE i = Len(q) + 1 /\ j \in 1..Len(q)
  BY <1>1, <1>2, <1>5 DEF Occurs
<1> QED
  BY <1>1, <1>3, <1>4, <1>5

\* What occurs in a queue is at its head or behind it.
LEMMA OccursTail ==
  ASSUME NEW T, NEW q \in Seq(T), q # <<>>, NEW S
  PROVE  Occurs(q, S) <=> Head(q) \in S \/ Occurs(Tail(q), S)
<1> DEFINE r == Tail(q)
<1>1. /\ Len(q) \in Nat /\ 1 <= Len(q) /\ Len(r) = Len(q) - 1 /\ Head(q) = q[1]
      /\ \A i \in 1..Len(r) : r[i] = q[i + 1]
  OBVIOUS
<1> HIDE DEF r
<1>2. Head(q) \in S => Occurs(q, S)
  BY <1>1 DEF Occurs
<1>3. Occurs(r, S) => Occurs(q, S)
  BY <1>1 DEF Occurs
<1>4. Occurs(q, S) => Head(q) \in S \/ Occurs(r, S)
  <2> SUFFICES ASSUME NEW i \in 1..Len(q), q[i] \in S, i # 1 PROVE Occurs(r, S)
    BY <1>1 DEF Occurs
  <2>1. i - 1 \in 1..Len(r) /\ r[i - 1] = q[(i - 1) + 1] /\ (i - 1) + 1 = i
    BY <1>1
  <2> QED
    BY <2>1 DEF Occurs
<1> QED
  BY <1>2, <1>3, <1>4 DEF r

\* pop_front keeps an element the only one; if it is the one, none is left.
LEMMA AtMostOnceTail ==
  ASSUME NEW T, NEW q \in Seq(T), q # <<>>, NEW S, AtMostOnce(q, S)
  PROVE  AtMostOnce(Tail(q), S) /\ (Head(q) \in S => ~Occurs(Tail(q), S))
<1> DEFINE r == Tail(q)
<1>1. /\ Len(q) \in Nat /\ 1 <= Len(q) /\ Len(r) = Len(q) - 1 /\ Head(q) = q[1]
      /\ \A i \in 1..Len(r) : r[i] = q[i + 1]
  OBVIOUS
<1> HIDE DEF r
<1>2. AtMostOnce(r, S)
  <2> SUFFICES ASSUME NEW i \in 1..Len(r), NEW j \in 1..Len(r), r[i] \in S, r[j] \in S
               PROVE  i = j
    BY DEF AtMostOnce
  <2>1. i + 1 \in 1..Len(q) /\ j + 1 \in 1..Len(q) /\ q[i + 1] \in S /\ q[j + 1] \in S
    BY <1>1
  <2>2. i + 1 = j + 1
    BY <2>1 DEF AtMostOnce
  <2> QED
    BY <2>2, <1>1
<1>3. ASSUME Head(q) \in S, NEW i \in 1..Len(r), r[i] \in S PROVE FALSE
  <2>1. i + 1 \in 1..Len(q) /\ 1 \in 1..Len(q) /\ q[i + 1] \in S /\ q[1] \in S
    BY <1>1, <1>3
  <2>2. i + 1 = 1
    BY <2>1 DEF AtMostOnce
  <2> QED
    BY <2>2, <1>1
<1> QED
  BY <1>2, <1>3 DEF Occurs, r

\* Pushing and popping keep a queue a queue.
LEMMA QueueTypes ==
  ASSUME NEW T, NEW q \in Seq(T)
  PROVE  /\ \A h \in T : Append(q, h) \in Seq(T) /\ Append(q, h) # <<>> /\ <<h>> \in Seq(T)
         /\ q # <<>> => Tail(q) \in Seq(T) /\ Head(q) \in T
<1>1. ASSUME NEW h \in T PROVE Append(q, h) \in Seq(T)
  OBVIOUS
<1>2. ASSUME NEW h \in T PROVE Append(q, h) # <<>>
  <2>1. Len(Append(q, h)) = Len(q) + 1 /\ Len(q) \in Nat
    OBVIOUS
  <2>2. Len(<<>>) = 0
    OBVIOUS
  <2> QED
    BY <2>1, <2>2
<1>3. ASSUME NEW h \in T PROVE <<h>> \in Seq(T)
  OBVIOUS
<1>4. ASSUME q # <<>> PROVE Tail(q) \in Seq(T)
  BY <1>4
<1>5. ASSUME q # <<>> PROVE Head(q) \in T
  BY <1>5
<1> QED
  BY <1>1, <1>2, <1>3, <1>4, <1>5

\* A queue after push_back.
LEMMA QueuePushed ==
  ASSUME NEW T, NEW q \in Seq(T), NEW h \in T
  PROVE  /\ Append(q, h) \in Seq(T) /\ Append(q, h) # <<>>
         /\ Append(q, h)[Len(Append(q, h))] = h
         /\ \A S : Occurs(Append(q, h), S) <=> Occurs(q, S) \/ h \in S
         /\ \A S : AtMostOnce(q, S) /\ (h \in S => ~Occurs(q, S))
                     => AtMostOnce(Append(q, h), S)
BY OccursAppend, AtMostOnceAppend, QueueTypes

\* A queue after pop_front.
LEMMA QueuePopped ==
  ASSUME NEW T, NEW q \in Seq(T), q # <<>>
  PROVE  /\ Tail(q) \in Seq(T) /\ Head(q) \in T
         /\ Tail(q) # <<>> => Tail(q)[Len(Tail(q))] = q[Len(q)]
         /\ \A S : Occurs(q, S) <=> Head(q) \in S \/ Occurs(Tail(q), S)
         /\ \A S : AtMostOnce(q, S) =>
                     AtMostOnce(Tail(q), S) /\ (Head(q) \in S => ~Occurs(Tail(q), S))
<1>1. Tail(q) # <<>> => Tail(q)[Len(Tail(q))] = q[Len(q)]
  OBVIOUS
<1> QED
  BY <1>1, OccursTail, AtMostOnceTail, QueueTypes

\* push_back and pop_front commute on a queue that is not empty.
LEMMA TailOfAppend ==
  ASSUME NEW T, NEW q \in Seq(T), q # <<>>, NEW h \in T
  PROVE  Tail(Append(q, h)) = Append(Tail(q), h)
<1> DEFINE r == Tail(Append(q, h))
           p == Append(Tail(q), h)
<1>1. Tail(q) \in Seq(T) /\ Len(Tail(q)) = Len(q) - 1 /\ Len(q) \in Nat /\ 1 <= Len(q)
  OBVIOUS
<1>2. Append(q, h) \in Seq(T) /\ Len(Append(q, h)) = Len(q) + 1 /\ Append(q, h) # <<>>
  BY QueueTypes
<1>3. r \in Seq(T) /\ p \in Seq(T) /\ Len(r) = Len(q) /\ Len(p) = Len(q)
  BY <1>1, <1>2, QueueTypes
<1>4. ASSUME NEW i \in 1..Len(q) PROVE r[i] = p[i]
  <2>1. r[i] = Append(q, h)[i + 1]
    BY <1>1, <1>2
  <2>2. CASE i = Len(q)
    <3>1. p[i] = h
      BY <1>1, <2>2
    <3>2. Append(q, h)[i + 1] = h
      BY <2>2
    <3> QED
      BY <2>1, <3>1, <3>2
  <2>3. CASE i \in 1..Len(q) - 1
    <3>1. p[i] = q[i + 1]
      BY <1>1, <2>3
    <3>2. Append(q, h)[i + 1] = q[i + 1]
      BY <1>1, <2>3
    <3> QED
      BY <2>1, <3>1, <3>2
  <2> HIDE DEF r, p
  <2>4. Len(q) \in Nat
    BY <1>1
  <2>5. i = Len(q) \/ i \in 1..Len(q) - 1
    BY <2>4
  <2> QED
    BY <2>2, <2>3, <2>5
<1> HIDE DEF r, p
<1>5. r = p
  BY <1>3, <1>4
<1> QED
  BY <1>5 DEF r, p

----------------------------------------------------------------------------
(* The inductive invariant. *)

AbortedHandlers ==
  {h \in OnReadHandlers \cup OnWrittenHandlers : h.result = "aborted"}

OwnerHandlers == {AsyncReadHandler, CloseHandler} \cup SendHandlers
OutboxOne(s) == outbox[s] = <<>> \/ \E h \in OwnerHandlers : outbox[s] = <<h>>
AbortedLate(s) == Occurs(strand[s], AbortedHandlers) => socket[s] = "closed"

Fresh(s) ==
  socket[s] = "none" =>
    /\ strand[s] = <<>> /\ outbox[s] = <<>> /\ sendQueue[s] = <<>>
    /\ ~readOp[s] /\ ~writeOp[s] /\ ~ReadTold(s) /\ ~CloseTold(s) /\ reading # s

Local(s) ==
  /\ OneReadToken(s) /\ ClosesOnce(s) /\ QueueServed(s)
  /\ OutboxOne(s) /\ AbortedLate(s) /\ Fresh(s)

IInv == SessionTypeOK /\ \A s \in Sessions : Local(s)

Events == [type : {"Close", "Receive"}, sid : Sessions]

----------------------------------------------------------------------------
\* A handler's sort can be told from its op.
LEMMA HandlerSorts ==
  \A h \in Handlers :
    /\ h \in ReadHandlers <=> h.op \in {"asyncRead", "onRead"}
    /\ h \in {CloseHandler} <=> h.op = "close"
    /\ h \in SendHandlers <=> h.op = "send"
    /\ h \in OnReadHandlers <=> h.op = "onRead"
    /\ h \in OnWrittenHandlers <=> h.op = "onWritten"
    /\ h \in {AsyncReadHandler} <=> h.op = "asyncRead"
    /\ h \in AbortedHandlers <=> h.op \in {"onRead", "onWritten"} /\ h.result = "aborted"
BY DEF Handlers, ReadHandlers, CloseHandler, SendHandlers, OnReadHandlers,
       OnWrittenHandlers, AsyncReadHandler, AbortedHandlers

\* The handlers that are posted are handlers.
LEMMA HandlersPosted ==
  /\ AsyncReadHandler \in Handlers /\ AsyncReadHandler.op = "asyncRead"
  /\ CloseHandler \in Handlers /\ CloseHandler.op = "close"
  /\ \A c \in Chunks : SendHandler(c) \in Handlers /\ SendHandler(c).op = "send"
  /\ \A r \in Results : /\ OnWrittenHandler(r) \in Handlers
                        /\ OnWrittenHandler(r).op = "onWritten"
                        /\ OnWrittenHandler(r).result = r
  /\ \A r \in Results, n \in Nat : /\ OnReadHandler(r, n) \in Handlers
                                   /\ OnReadHandler(r, n).op = "onRead"
                                   /\ OnReadHandler(r, n).result = r
BY DEF Handlers, ReadHandlers, CloseHandler, SendHandlers, OnReadHandlers,
       OnWrittenHandlers, AsyncReadHandler, SendHandler, OnReadHandler,
       OnWrittenHandler

\* The packets that a read may bring are counted by naturals.
LEMMA ReadCounts ==
  ASSUME SessionTypeOK, NEW s \in Sessions
  PROVE  \A n \in MinPackets..MaxPackets - arrived[s] : n \in Nat
<1>1. arrived[s] \in Nat
  BY DEF SessionTypeOK
<1>2. MinPackets \in Nat /\ MaxPackets \in Nat
  BY SessionAssumption
<1> QED
  BY <1>1, <1>2

\* Events of different sessions or types differ.
LEMMA EventSorts ==
  \A s, t \in Sessions :
    /\ CloseEvent(s) \in Events /\ ReceiveEvent(s) \in Events
    /\ CloseEvent(s) # ReceiveEvent(t)
    /\ s # t => CloseEvent(s) # CloseEvent(t) /\ ReceiveEvent(s) # ReceiveEvent(t)
BY DEF Events, CloseEvent, ReceiveEvent

----------------------------------------------------------------------------
(* Steps of one session leave the others alone. *)

EventsKept(t) ==
  /\ ReadTold(t)' => ReadTold(t)
  /\ CloseTold(t)' => CloseTold(t)
  /\ AtMostOnce(events, {ReceiveEvent(t)}) => AtMostOnce(events', {ReceiveEvent(t)})
  /\ AtMostOnce(events, {CloseEvent(t)}) => AtMostOnce(events', {CloseEvent(t)})

Untouched(t) ==
  /\ socket'[t] = socket[t] /\ running'[t] = running[t]
  /\ strand'[t] = strand[t] /\ outbox'[t] = outbox[t]
  /\ readOp'[t] = readOp[t] /\ writeOp'[t] = writeOp[t]
  /\ sendQueue'[t] = sendQueue[t]
  /\ reading' = t => reading = t
  /\ EventsKept(t)

\* A session that is not touched keeps its invariant.
LEMMA Frame == ASSUME NEW t \in Sessions, Local(t), Untouched(t) PROVE Local(t)'
<1>1. OneReadToken(t)'
  BY DEF Local, Untouched, EventsKept, OneReadToken, ReadPosted, ReadQueued, ReadTold
<1>2. ClosesOnce(t)'
  BY DEF Local, Untouched, EventsKept, ClosesOnce, ClosePosted, CloseQueued, CloseTold
<1>3. QueueServed(t)' /\ OutboxOne(t)' /\ AbortedLate(t)'
  BY DEF Local, Untouched, QueueServed, WrittenQueued, OutboxOne, AbortedLate
<1>4. Fresh(t)'
  BY DEF Local, Untouched, EventsKept, Fresh, ReadTold, CloseTold
<1> QED
  BY <1>1, <1>2, <1>3, <1>4 DEF Local

\* So a step of s preserves the invariant if it does so for s.
LEMMA OneSession ==
  ASSUME IInv, SessionTypeOK', NEW s \in Sessions, Local(s)',
         \A t \in Sessions : t # s => Untouched(t)
  PROVE  IInv'
BY Frame DEF IInv

\* No event is new when the events stay or the first one is popped.
LEMMA EventsSame == ASSUME events' = events, NEW t \in Sessions PROVE EventsKept(t)
BY DEF EventsKept, ReadTold, CloseTold

\* Popping the owner's event queue.
LEMMA EventsPopped ==
  ASSUME SessionTypeOK, events # <<>>, events' = Tail(events), NEW t \in Sessions
  PROVE  EventsKept(t)
<1>1. events \in Seq(Events)
  BY DEF SessionTypeOK, Events
<1>2. \A S : /\ Occurs(Tail(events), S) => Occurs(events, S)
             /\ AtMostOnce(events, S) => AtMostOnce(Tail(events), S)
  BY <1>1, OccursTail, AtMostOnceTail
<1> QED
  BY <1>2 DEF EventsKept, ReadTold, CloseTold

\* An event pushed by one session is none of another's.
LEMMA EventsPushed ==
  ASSUME SessionTypeOK, NEW s \in Sessions, NEW e \in {CloseEvent(s), ReceiveEvent(s)},
         events' = Append(events, e), NEW t \in Sessions, t # s
  PROVE  EventsKept(t)
<1>1. events \in Seq(Events) /\ e \in Events
  BY EventSorts DEF SessionTypeOK, Events
<1>2. e # CloseEvent(t) /\ e # ReceiveEvent(t)
  BY EventSorts
<1>3. \A S : e \notin S => /\ Occurs(Append(events, e), S) => Occurs(events, S)
                           /\ AtMostOnce(events, S) => AtMostOnce(Append(events, e), S)
  BY <1>1, OccursAppend, AtMostOnceAppend
<1>4. /\ Occurs(events', {CloseEvent(t)}) => Occurs(events, {CloseEvent(t)})
      /\ AtMostOnce(events, {CloseEvent(t)}) => AtMostOnce(events', {CloseEvent(t)})
  BY <1>2, <1>3
<1>5. /\ Occurs(events', {ReceiveEvent(t)}) => Occurs(events, {ReceiveEvent(t)})
      /\ AtMostOnce(events, {ReceiveEvent(t)}) => AtMostOnce(events', {ReceiveEvent(t)})
  BY <1>2, <1>3
<1> QED
  BY <1>4, <1>5 DEF EventsKept, ReadTold, CloseTold

----------------------------------------------------------------------------
(* What a push and a pop do to a session's strand. *)

Pushed(s, h) == strand' = [strand EXCEPT ![s] = Append(@, h)]
Popped(s) == strand' = [strand EXCEPT ![s] = Tail(@)]

\* The new handler joins its own sort only.
LEMMA StrandPushed ==
  ASSUME SessionTypeOK, NEW s \in Sessions, NEW h \in Handlers, Pushed(s, h)
  PROVE  /\ strand' \in [Sessions -> Seq(Handlers)]
         /\ \A t \in Sessions : t # s => strand'[t] = strand[t]
         /\ \A S : /\ Occurs(strand'[s], S) <=> Occurs(strand[s], S) \/ h \in S
                   /\ /\ AtMostOnce(strand[s], S)
                      /\ h \in S => ~Occurs(strand[s], S)
                      => AtMostOnce(strand'[s], S)
<1>1. strand \in [Sessions -> Seq(Handlers)] /\ strand[s] \in Seq(Handlers)
  BY DEF SessionTypeOK
<1>2. Append(strand[s], h) \in Seq(Handlers) /\ strand'[s] = Append(strand[s], h)
  BY <1>1, QueueTypes DEF Pushed
<1>3. \A S : Occurs(strand'[s], S) <=> Occurs(strand[s], S) \/ h \in S
  BY <1>1, <1>2, OccursAppend
<1>4. ASSUME NEW S, AtMostOnce(strand[s], S), h \in S => ~Occurs(strand[s], S)
      PROVE  AtMostOnce(strand'[s], S)
  BY <1>1, <1>2, <1>4, AtMostOnceAppend
<1> QED
  BY <1>1, <1>2, <1>3, <1>4 DEF Pushed

\* The handler that ran leaves its sort.
LEMMA StrandPopped ==
  ASSUME SessionTypeOK, NEW s \in Sessions, strand[s] # <<>>, Popped(s)
  PROVE  /\ strand' \in [Sessions -> Seq(Handlers)]
         /\ Head(strand[s]) \in Handlers
         /\ \A t \in Sessions : t # s => strand'[t] = strand[t]
         /\ \A S : /\ Occurs(strand'[s], S) => Occurs(strand[s], S)
                   /\ Head(strand[s]) \in S => Occurs(strand[s], S)
                   /\ Head(strand[s]) \notin S =>
                        (Occurs(strand[s], S) => Occurs(strand'[s], S))
                   /\ AtMostOnce(strand[s], S) =>
                        /\ AtMostOnce(strand'[s], S)
                        /\ Head(strand[s]) \in S => ~Occurs(strand'[s], S)
<1>1. strand \in [Sessions -> Seq(Handlers)] /\ strand[s] \in Seq(Handlers)
  BY DEF SessionTypeOK
<1>2. /\ Tail(strand[s]) \in Seq(Handlers) /\ Head(strand[s]) \in Handlers
      /\ strand'[s] = Tail(strand[s])
  BY <1>1, QueueTypes DEF Popped
<1>3. \A S : Occurs(strand[s], S) <=> Head(strand[s]) \in S \/ Occurs(strand'[s], S)
  BY <1>1, <1>2, OccursTail
<1>4. ASSUME NEW S, AtMostOnce(strand[s], S)
      PROVE  /\ AtMostOnce(strand'[s], S)
             /\ Head(strand[s]) \in S => ~Occurs(strand'[s], S)
  BY <1>1, <1>2, <1>4, AtMostOnceTail
<1> QED
  BY <1>1, <1>2, <1>3, <1>4 DEF Popped

----------------------------------------------------------------------------
(* The owner's calls. *)

\* A new session holds the read token in its owner's outbox.
LEMMA StartIInv == ASSUME IInv, NEW s \in Sessions, Start(s) PROVE IInv'
<1>1. Fresh(s) /\ socket[s] = "none" /\ events' = events /\ reading' = reading
  BY DEF IInv, Local, Start
<1>2. SessionTypeOK'
  <2>1. outbox' \in [Sessions -> Seq(Handlers)]
    BY HandlersPosted, QueueTypes DEF IInv, SessionTypeOK, Start
  <2> QED
    BY <2>1 DEF IInv, SessionTypeOK, Start
<1>3. ASSUME NEW t \in Sessions, t # s PROVE Untouched(t)
  BY <1>1, <1>3, EventsSame DEF Untouched, Start, IInv, SessionTypeOK
<1>4. /\ strand'[s] = <<>> /\ outbox'[s] = <<AsyncReadHandler>> /\ sendQueue'[s] = <<>>
      /\ ~readOp'[s] /\ ~writeOp'[s] /\ ~ReadTold(s)' /\ ~CloseTold(s)' /\ reading' # s
      /\ socket'[s] = "open"
  BY <1>1 DEF Fresh, Start, IInv, SessionTypeOK, ReadTold, CloseTold
<1>5. ~ReadQueued(s)' /\ ~CloseQueued(s)' /\ ~WrittenQueued(s)' /\ ~ClosePosted(s)'
  BY <1>4, OccursEmpty, OccursSingle, HandlerSorts, HandlersPosted
  DEF ReadQueued, CloseQueued, WrittenQueued, ClosePosted
<1>6. \A S : AtMostOnce(strand'[s], S) /\ ~Occurs(strand'[s], S)
  BY <1>4, OccursEmpty
<1>7. AtMostOnce(events', {ReceiveEvent(s)}) /\ AtMostOnce(events', {CloseEvent(s)})
  BY <1>1 DEF IInv, Local, OneReadToken, ClosesOnce
<1>8. OneReadToken(s)'
  BY <1>4, <1>5, <1>6, <1>7 DEF OneReadToken
<1>9. ClosesOnce(s)'
  BY <1>4, <1>5, <1>6, <1>7 DEF ClosesOnce
<1>10. QueueServed(s)'
  BY <1>4, <1>5, <1>6 DEF QueueServed
<1>11. OutboxOne(s)' /\ AbortedLate(s)' /\ Fresh(s)'
  BY <1>4, <1>6 DEF OutboxOne, OwnerHandlers, AbortedLate, Fresh
<1> QED
  BY <1>2, <1>3, <1>8, <1>9, <1>10, <1>11, OneSession DEF Local

\* Posting moves the handler from the outbox to the end of the strand.
LEMMA PostIInv == ASSUME IInv, NEW s \in Sessions, Post(s) PROVE IInv'
<1>1. PICK h \in OwnerHandlers : outbox[s] = <<h>>
  BY DEF IInv, Local, OutboxOne, Post
<1>2. h \in Handlers /\ h.op \in {"asyncRead", "close", "send"}
  BY HandlersPosted DEF OwnerHandlers, Handlers, SendHandlers
<1>3. Pushed(s, h) /\ outbox' = [outbox EXCEPT ![s] = <<>>]
  BY <1>1 DEF Post, Pushed
<1>4. SessionTypeOK /\ Local(s) /\ events' = events
  BY DEF IInv, Post
<1>5. SessionTypeOK'
  BY <1>2, <1>3, <1>4, StrandPushed DEF SessionTypeOK, Post
<1>6. ASSUME NEW t \in Sessions, t # s PROVE Untouched(t)
  BY <1>2, <1>3, <1>4, <1>6, StrandPushed, EventsSame DEF Untouched, Post, SessionTypeOK
<1>7. /\ outbox'[s] = <<>>
      /\ \A S : Occurs(outbox[s], S) <=> h \in S
      /\ \A S : ~Occurs(outbox'[s], S)
  BY <1>1, <1>3, <1>4, OccursSingle, OccursEmpty DEF SessionTypeOK
<1>8. \A S : /\ Occurs(strand'[s], S) <=> Occurs(strand[s], S) \/ h \in S
             /\ /\ AtMostOnce(strand[s], S)
                /\ h \in S => ~Occurs(strand[s], S)
                => AtMostOnce(strand'[s], S)
  BY <1>2, <1>3, <1>4, StrandPushed
<1>9. /\ h \in ReadHandlers => h \in {AsyncReadHandler}
      /\ h \in {AsyncReadHandler} => h \notin {CloseHandler}
      /\ h \notin OnWrittenHandlers /\ h \notin AbortedHandlers
  BY <1>2, HandlerSorts
<1>10. OneReadToken(s)'
  BY <1>4, <1>7, <1>8, <1>9
  DEF Local, OneReadToken, ReadPosted, ReadQueued, ReadTold, Post
<1>11. ClosesOnce(s)'
  BY <1>4, <1>7, <1>8, <1>9
  DEF Local, ClosesOnce, ClosePosted, CloseQueued, CloseTold, Post
<1>12. QueueServed(s)' /\ AbortedLate(s)'
  BY <1>4, <1>7, <1>8, <1>9 DEF Local, QueueServed, WrittenQueued, AbortedLate, Post
<1>13. OutboxOne(s)' /\ Fresh(s)'
  BY <1>1, <1>4, <1>7 DEF Local, OutboxOne, Fresh, Post
<1> QED
  BY <1>5, <1>6, <1>10, <1>11, <1>12, <1>13, OneSession DEF Local

\* An idle owner fills an empty outbox.
LEMMA OutboxFilled ==
  ASSUME SessionTypeOK, OwnerIdle, NEW s \in Sessions, NEW h \in OwnerHandlers,
         outbox' = [outbox EXCEPT ![s] = <<h>>]
  PROVE  /\ outbox' \in [Sessions -> Seq(Handlers)]
         /\ \A t \in Sessions : t # s => outbox'[t] = outbox[t]
         /\ \A S : ~Occurs(outbox[s], S)
         /\ \A S : Occurs(outbox'[s], S) <=> h \in S
         /\ OutboxOne(s)'
<1>1. h \in Handlers
  BY HandlersPosted DEF OwnerHandlers, Handlers, SendHandlers
<1>2. outbox'[s] = <<h>> /\ outbox[s] = <<>>
  BY DEF SessionTypeOK, OwnerIdle
<1>3. <<h>> \in Seq(Handlers)
  BY <1>1
<1> QED
  BY <1>2, <1>3, OccursSingle, OccursEmpty DEF SessionTypeOK, OutboxOne

\* m_running is exchanged before close() is posted: it is posted once.
LEMMA StopIInv == ASSUME IInv, NEW s \in Sessions, Stop(s) PROVE IInv'
<1>1. /\ SessionTypeOK /\ Local(s) /\ OwnerIdle /\ CloseHandler \in OwnerHandlers
      /\ outbox' = [outbox EXCEPT ![s] = <<CloseHandler>>]
  BY DEF IInv, Stop, OwnerHandlers
<1>2. /\ running'[s] = FALSE /\ running[s] /\ socket[s] = "open"
      /\ \A t \in Sessions : t # s => running'[t] = running[t]
  BY <1>1 DEF Local, ClosesOnce, SessionTypeOK, Stop
<1>3. SessionTypeOK'
  BY <1>1, OutboxFilled DEF SessionTypeOK, Stop
<1>4. ASSUME NEW t \in Sessions, t # s PROVE Untouched(t)
  BY <1>1, <1>2, <1>4, OutboxFilled, EventsSame DEF Untouched, Stop
<1>5. /\ \A S : ~Occurs(outbox[s], S)
      /\ \A S : Occurs(outbox'[s], S) <=> CloseHandler \in S
      /\ OutboxOne(s)'
  BY <1>1, OutboxFilled
<1>6. CloseHandler \notin {AsyncReadHandler}
  BY HandlersPosted
<1>7. OneReadToken(s)'
  BY <1>1, <1>5, <1>6 DEF Local, OneReadToken, ReadPosted, ReadQueued, ReadTold, Stop
<1>8. ClosesOnce(s)'
  BY <1>1, <1>2, <1>5
  DEF Local, ClosesOnce, ClosePosted, CloseQueued, CloseTold, Stop
<1>9. QueueServed(s)' /\ AbortedLate(s)' /\ Fresh(s)'
  BY <1>1, <1>2 DEF Local, QueueServed, WrittenQueued, AbortedLate, Fresh, Stop
<1> QED
  BY <1>3, <1>4, <1>5, <1>7, <1>8, <1>9, OneSession DEF Local

\* A chunk in the outbox is neither a read nor a close.
LEMMA SendIInv ==
  ASSUME IInv, NEW s \in Sessions, NEW c \in Chunks, Send(s, c) PROVE IInv'
<1>1. /\ SessionTypeOK /\ Local(s) /\ OwnerIdle
      /\ outbox' = [outbox EXCEPT ![s] = <<SendHandler(c)>>]
  BY DEF IInv, Send
<1>2. /\ running[s] /\ socket[s] = "open"
      /\ SendHandler(c) \in OwnerHandlers
      /\ SendHandler(c) \notin {AsyncReadHandler} /\ SendHandler(c) \notin {CloseHandler}
  BY <1>1, HandlersPosted, HandlerSorts
  DEF Local, ClosesOnce, Send, OwnerHandlers, SendHandlers, SendHandler
<1>3. SessionTypeOK'
  BY <1>1, <1>2, OutboxFilled DEF SessionTypeOK, Send
<1>4. ASSUME NEW t \in Sessions, t # s PROVE Untouched(t)
  BY <1>1, <1>2, <1>4, OutboxFilled, EventsSame DEF Untouched, Send
<1>5. /\ \A S : ~Occurs(outbox[s], S)
      /\ \A S : Occurs(outbox'[s], S) <=> SendHandler(c) \in S
      /\ OutboxOne(s)'
  BY <1>1, <1>2, OutboxFilled
<1>6. OneReadToken(s)'
  BY <1>1, <1>2, <1>5 DEF Local, OneReadToken, ReadPosted, ReadQueued, ReadTold, Send
<1>7. ClosesOnce(s)'
  BY <1>1, <1>2, <1>5
  DEF Local, ClosesOnce, ClosePosted, CloseQueued, CloseTold, Send
<1>8. QueueServed(s)' /\ AbortedLate(s)' /\ Fresh(s)'
  BY <1>1, <1>2 DEF Local, QueueServed, WrittenQueued, AbortedLate, Fresh, Send
<1> QED
  BY <1>3, <1>4, <1>5, <1>6, <1>7, <1>8, OneSession DEF Local

\* An event taken is one less.
LEMMA TakeEventIInv ==
  ASSUME IInv, NEW s \in Sessions, TakeClose(s) \/ SkipReceive(s) PROVE IInv'
<1>1. /\ SessionTypeOK /\ events # <<>> /\ events' = Tail(events)
      /\ UNCHANGED <<socket, running, strand, outbox, readOp, writeOp, sendQueue,
                     arrived, popped, delivered, reading>>
  BY DEF IInv, TakeClose, SkipReceive
<1>2. SessionTypeOK'
  BY <1>1, QueueTypes DEF SessionTypeOK
<1>3. ASSUME NEW t \in Sessions PROVE Untouched(t)
  BY <1>1, <1>3, EventsPopped DEF Untouched
<1> QED
  BY <1>2, <1>3, Frame DEF IInv

\* The token goes from the event to the packet loop.
LEMMA TakeReceiveIInv == ASSUME IInv, NEW s \in Sessions, TakeReceive(s) PROVE IInv'
<1>1. /\ SessionTypeOK /\ Local(s) /\ events \in Seq(Events)
      /\ events # <<>> /\ Head(events) = ReceiveEvent(s) /\ events' = Tail(events)
      /\ reading' = s
      /\ UNCHANGED <<socket, running, strand, outbox, readOp, writeOp, sendQueue,
                     arrived, popped, delivered>>
  BY DEF IInv, TakeReceive, SessionTypeOK, Events
<1>2. SessionTypeOK'
  BY <1>1, QueueTypes DEF SessionTypeOK
<1>3. ASSUME NEW t \in Sessions, t # s PROVE Untouched(t)
  BY <1>1, <1>3, EventsPopped DEF Untouched
<1>4. ReadTold(s) /\ ~ReadTold(s)'
  BY <1>1, OccursTail, AtMostOnceTail DEF Local, OneReadToken, ReadTold
<1>5. EventsKept(s)
  BY <1>1, EventsPopped
<1>6. OneReadToken(s)'
  BY <1>1, <1>4, <1>5
  DEF Local, EventsKept, OneReadToken, ReadPosted, ReadQueued
<1>7. ClosesOnce(s)'
  BY <1>1, <1>5 DEF Local, EventsKept, ClosesOnce, ClosePosted, CloseQueued
<1>8. QueueServed(s)' /\ OutboxOne(s)' /\ AbortedLate(s)' /\ Fresh(s)'
  BY <1>1, <1>4
  DEF Local, QueueServed, WrittenQueued, OutboxOne, AbortedLate, Fresh
<1> QED
  BY <1>2, <1>3, <1>6, <1>7, <1>8, OneSession DEF Local

\* A packet leaves the buffer only if there is one.
LEMMA PopFrontPacketIInv ==
  ASSUME IInv, NEW s \in Sessions, PopFrontPacket(s) PROVE IInv'
<1>1. SessionTypeOK /\ events' = events
  BY DEF IInv, PopFrontPacket
<1>2. /\ popped' \in [Sessions -> Nat]
      /\ \A t \in Sessions : popped'[t] <= arrived[t]
  BY <1>1 DEF PopFrontPacket, HasFrontPacket, SessionTypeOK
<1>3. SessionTypeOK'
  BY <1>1, <1>2 DEF SessionTypeOK, PopFrontPacket
<1>4. ASSUME NEW t \in Sessions PROVE Untouched(t)
  BY <1>1, <1>4, EventsSame DEF Untouched, PopFrontPacket
<1> QED
  BY <1>3, <1>4, Frame DEF IInv

\* The token goes from the packet loop to the outbox, or is given up.
LEMMA ReceiveIInv == ASSUME IInv, NEW s \in Sessions, Receive(s) PROVE IInv'
<1>1. /\ SessionTypeOK /\ Local(s) /\ OwnerIdle /\ reading = s
      /\ NoSession \notin Sessions /\ reading' = NoSession
      /\ UNCHANGED <<socket, running, strand, readOp, writeOp, sendQueue, arrived,
                     popped, delivered, events>>
  BY NoSessionAssumption DEF IInv, Receive
<1>2. CASE running[s]
  <2>1. /\ outbox' = [outbox EXCEPT ![s] = <<AsyncReadHandler>>]
        /\ AsyncReadHandler \in OwnerHandlers /\ AsyncReadHandler # CloseHandler
        /\ socket[s] = "open"
    BY <1>1, <1>2, HandlersPosted DEF Receive, OwnerHandlers, Local, ClosesOnce
  <2>2. SessionTypeOK'
    BY <1>1, <2>1, OutboxFilled DEF SessionTypeOK
  <2>3. ASSUME NEW t \in Sessions, t # s PROVE Untouched(t)
    BY <1>1, <2>1, <2>3, OutboxFilled, EventsSame DEF Untouched
  <2>4. /\ \A S : ~Occurs(outbox[s], S)
        /\ \A S : Occurs(outbox'[s], S) <=> AsyncReadHandler \in S
        /\ OutboxOne(s)'
    BY <1>1, <2>1, OutboxFilled
  <2>5. OneReadToken(s)'
    BY <1>1, <2>1, <2>4 DEF Local, OneReadToken, ReadPosted, ReadQueued, ReadTold
  <2>6. ClosesOnce(s)'
    BY <1>1, <2>1, <2>4 DEF Local, ClosesOnce, ClosePosted, CloseQueued, CloseTold
  <2>7. QueueServed(s)' /\ AbortedLate(s)' /\ Fresh(s)'
    BY <1>1, <2>1 DEF Local, QueueServed, WrittenQueued, AbortedLate, Fresh
  <2> QED
    BY <2>2, <2>3, <2>4, <2>5, <2>6, <2>7, OneSession DEF Local
<1>3. CASE ~running[s]
  <2>1. outbox' = outbox
    BY <1>3 DEF Receive
  <2>2. SessionTypeOK'
    BY <1>1, <2>1 DEF SessionTypeOK
  <2>3. ASSUME NEW t \in Sessions PROVE Untouched(t)
    BY <1>1, <2>1, <2>3, EventsSame DEF Untouched
  <2> QED
    BY <2>2, <2>3, Frame DEF IInv
<1> QED
  BY <1>2, <1>3

----------------------------------------------------------------------------
(* The handlers on the strand. *)

\* The handler that ran leaves its sort and the one it posts joins its own.
LEMMA StrandReplaced ==
  ASSUME SessionTypeOK, NEW s \in Sessions, strand[s] # <<>>, NEW h \in Handlers,
         strand' = [strand EXCEPT ![s] = Append(Tail(@), h)]
  PROVE  /\ strand' \in [Sessions -> Seq(Handlers)]
         /\ Head(strand[s]) \in Handlers
         /\ \A t \in Sessions : t # s => strand'[t] = strand[t]
         /\ \A S : /\ Occurs(strand'[s], S) => Occurs(strand[s], S) \/ h \in S
                   /\ h \in S => Occurs(strand'[s], S)
                   /\ Head(strand[s]) \in S => Occurs(strand[s], S)
                   /\ /\ AtMostOnce(strand[s], S)
                      /\ h \in S => ~Occurs(strand[s], S)
                      => /\ AtMostOnce(strand'[s], S)
                         /\ Head(strand[s]) \in S => ~Occurs(strand'[s], S)
<1> DEFINE q == Tail(strand[s])
<1>1. strand \in [Sessions -> Seq(Handlers)] /\ strand[s] \in Seq(Handlers)
  BY DEF SessionTypeOK
<1>2. q \in Seq(Handlers) /\ Head(strand[s]) \in Handlers
  BY <1>1, QueueTypes
<1>3. strand'[s] = Append(q, h) /\ Append(q, h) \in Seq(Handlers)
  BY <1>1, <1>2, QueueTypes
<1>4. \A S : Occurs(strand[s], S) <=> Head(strand[s]) \in S \/ Occurs(q, S)
  BY <1>1, OccursTail
<1>5. \A S : AtMostOnce(strand[s], S) =>
               AtMostOnce(q, S) /\ (Head(strand[s]) \in S => ~Occurs(q, S))
  BY <1>1, AtMostOnceTail
<1> HIDE DEF q
<1>6. \A S : Occurs(strand'[s], S) <=> Occurs(q, S) \/ h \in S
  <2>1. ASSUME NEW S PROVE Occurs(Append(q, h), S) <=> Occurs(q, S) \/ h \in S
    BY <1>2, OccursAppend
  <2> QED
    BY <1>3, <2>1
<1>7. \A S : AtMostOnce(q, S) /\ (h \in S => ~Occurs(q, S)) => AtMostOnce(strand'[s], S)
  BY <1>2, <1>3, AtMostOnceAppend
<1>8. ASSUME NEW S, AtMostOnce(strand[s], S), h \in S => ~Occurs(strand[s], S)
      PROVE  /\ AtMostOnce(strand'[s], S)
             /\ Head(strand[s]) \in S => ~Occurs(strand'[s], S)
  BY <1>4, <1>5, <1>6, <1>7, <1>8
<1> QED
  BY <1>1, <1>2, <1>3, <1>4, <1>6, <1>8

\* The token goes from the strand to the operating system, or is given up.
LEMMA AsyncReadIInv == ASSUME IInv, NEW s \in Sessions, AsyncRead(s) PROVE IInv'
<1>1. /\ SessionTypeOK /\ Local(s) /\ Popped(s) /\ strand[s] # <<>>
      /\ Head(strand[s]) = AsyncReadHandler /\ events' = events
      /\ UNCHANGED <<socket, running, outbox, writeOp, sendQueue, arrived, popped,
                     delivered, events, reading>>
  BY DEF IInv, AsyncRead, Runs, Popped
<1>2. /\ AsyncReadHandler \in ReadHandlers
      /\ AsyncReadHandler \notin {CloseHandler}
      /\ AsyncReadHandler \notin OnWrittenHandlers
  BY HandlersPosted, HandlerSorts
<1>3. /\ readOp' \in [Sessions -> BOOLEAN]
      /\ \A t \in Sessions : t # s => readOp'[t] = readOp[t]
      /\ readOp'[s] => running[s] \/ readOp[s]
  BY <1>1 DEF AsyncRead, SessionTypeOK
<1>4. SessionTypeOK'
  BY <1>1, <1>3, StrandPopped DEF SessionTypeOK
<1>5. ASSUME NEW t \in Sessions, t # s PROVE Untouched(t)
  BY <1>1, <1>3, <1>5, StrandPopped, EventsSame DEF Untouched
<1>6. \A S : /\ Occurs(strand'[s], S) => Occurs(strand[s], S)
             /\ AsyncReadHandler \in S => Occurs(strand[s], S)
             /\ AsyncReadHandler \notin S =>
                  (Occurs(strand[s], S) => Occurs(strand'[s], S))
             /\ AtMostOnce(strand[s], S) =>
                  /\ AtMostOnce(strand'[s], S)
                  /\ AsyncReadHandler \in S => ~Occurs(strand'[s], S)
  BY <1>1, StrandPopped
<1>7. OneReadToken(s)'
  BY <1>1, <1>2, <1>6 DEF Local, OneReadToken, ReadPosted, ReadQueued, ReadTold
<1>8. ClosesOnce(s)'
  BY <1>1, <1>2, <1>6 DEF Local, ClosesOnce, ClosePosted, CloseQueued, CloseTold
<1>9. QueueServed(s)' /\ OutboxOne(s)' /\ AbortedLate(s)'
  BY <1>1, <1>2, <1>6 DEF Local, QueueServed, WrittenQueued, OutboxOne, AbortedLate
<1>10. Fresh(s)'
  BY <1>1 DEF Local, Fresh
<1> QED
  BY <1>4, <1>5, <1>7, <1>8, <1>9, <1>10, OneSession DEF Local

\* Bytes read: the token goes from the strand to a Receive event.
LEMMA OnReadOkIInv ==
  ASSUME IInv, NEW s \in Sessions, Runs(s, OnReadHandlers), Popped(s),
         arrived' = [arrived EXCEPT ![s] = @ + Head(strand[s]).n],
         events' = Append(events, ReceiveEvent(s)),
         UNCHANGED <<socket, running, outbox, readOp, writeOp, sendQueue, popped,
                     delivered, reading>>
  PROVE  IInv'
<1> DEFINE h == Head(strand[s])
<1>1. SessionTypeOK /\ Local(s) /\ strand[s] # <<>> /\ events \in Seq(Events)
  BY DEF IInv, Runs, SessionTypeOK, Events
<1>2. /\ h \in Handlers /\ h.n \in Nat
      /\ h \in ReadHandlers /\ h \notin {CloseHandler} /\ h \notin OnWrittenHandlers
  <2>1. h \in OnReadHandlers /\ h.op = "onRead" /\ h.n \in Nat
    BY DEF Runs, OnReadHandlers
  <2>2. h \in Handlers
    BY <2>1 DEF Handlers, ReadHandlers
  <2> HIDE DEF h
  <2> QED
    BY <2>1, <2>2, HandlerSorts
<1>3. \A S : /\ Occurs(strand'[s], S) => Occurs(strand[s], S)
             /\ h \in S => Occurs(strand[s], S)
             /\ h \notin S => (Occurs(strand[s], S) => Occurs(strand'[s], S))
             /\ AtMostOnce(strand[s], S) =>
                  AtMostOnce(strand'[s], S) /\ (h \in S => ~Occurs(strand'[s], S))
  BY <1>1, StrandPopped
<1>4. /\ strand' \in [Sessions -> Seq(Handlers)]
      /\ \A t \in Sessions : t # s => strand'[t] = strand[t]
  BY <1>1, StrandPopped
<1> HIDE DEF h
<1>5. SessionTypeOK'
  <2>1. /\ arrived' \in [Sessions -> Nat]
        /\ \A t \in Sessions : popped[t] <= arrived'[t]
    <3>1. /\ arrived \in [Sessions -> Nat] /\ popped \in [Sessions -> Nat]
          /\ \A t \in Sessions : popped[t] <= arrived[t]
      BY <1>1 DEF SessionTypeOK
    <3>2. h.n \in Nat /\ arrived' = [arrived EXCEPT ![s] = @ + h.n]
      BY <1>2 DEF h
    <3> QED
      BY <3>1, <3>2
  <2>2. events' \in Seq(Events)
    BY <1>1, EventSorts, QueueTypes
  <2> QED
    BY <1>1, <1>4, <2>1, <2>2 DEF SessionTypeOK, Events
<1>6. ASSUME NEW t \in Sessions, t # s PROVE Untouched(t)
  BY <1>1, <1>4, <1>6, EventsPushed DEF Untouched
<1>7. \A S : /\ Occurs(events', S) <=> Occurs(events, S) \/ ReceiveEvent(s) \in S
             /\ /\ AtMostOnce(events, S)
                /\ ReceiveEvent(s) \in S => ~Occurs(events, S)
                => AtMostOnce(events', S)
  BY <1>1, EventSorts, OccursAppend, AtMostOnceAppend
<1>8. ReceiveEvent(s) \notin {CloseEvent(s)}
  BY EventSorts
<1>9. OneReadToken(s)'
  BY <1>1, <1>2, <1>3, <1>7 DEF Local, OneReadToken, ReadPosted, ReadQueued, ReadTold
<1>10. ClosesOnce(s)'
  BY <1>1, <1>2, <1>3, <1>7, <1>8
  DEF Local, ClosesOnce, ClosePosted, CloseQueued, CloseTold
<1>11. QueueServed(s)' /\ OutboxOne(s)' /\ AbortedLate(s)'
  BY <1>1, <1>2, <1>3 DEF Local, QueueServed, WrittenQueued, OutboxOne, AbortedLate
<1>12. Fresh(s)'
  BY <1>1 DEF Local, Fresh
<1> QED
  BY <1>5, <1>6, <1>9, <1>10, <1>11, <1>12, OneSession DEF Local

\* A failed operation: an aborted one is ignored, but the session is closed by
\* then; any other stops the session.  Either way it does not run any more.
LEMMA ErrorIInv ==
  ASSUME IInv, NEW s \in Sessions,
         Runs(s, OnReadHandlers) \/ Runs(s, OnWrittenHandlers),
         HandleError(s, Head(strand[s]).result),
         UNCHANGED <<socket, outbox, readOp, writeOp, sendQueue, arrived, popped,
                     delivered, events, reading>>
  PROVE  IInv'
<1> DEFINE h == Head(strand[s])
<1>1. SessionTypeOK /\ Local(s) /\ strand[s] # <<>>
  BY DEF IInv, Runs
<1>2. /\ h \in Handlers /\ h \notin {CloseHandler} /\ h \notin {AsyncReadHandler}
      /\ h.op \in {"onRead", "onWritten"}
  <2>1. h \in Handlers /\ h.op \in {"onRead", "onWritten"}
    BY DEF Runs, OnReadHandlers, OnWrittenHandlers, Handlers, ReadHandlers
  <2> HIDE DEF h
  <2> QED
    BY <2>1, HandlerSorts
<1> HIDE DEF h
<1>3. CASE Popped(s) /\ running' = running /\ ~running[s]
  <2>1. \A S : /\ Occurs(strand'[s], S) => Occurs(strand[s], S)
               /\ h \notin S => (Occurs(strand[s], S) => Occurs(strand'[s], S))
               /\ AtMostOnce(strand[s], S) => AtMostOnce(strand'[s], S)
    BY <1>1, <1>3, StrandPopped DEF h
  <2>2. SessionTypeOK'
    BY <1>1, <1>3, StrandPopped DEF SessionTypeOK
  <2>3. ASSUME NEW t \in Sessions, t # s PROVE Untouched(t)
    BY <1>1, <1>3, <2>3, StrandPopped, EventsSame DEF Untouched
  <2>4. OneReadToken(s)'
    BY <1>1, <2>1 DEF Local, OneReadToken, ReadPosted, ReadQueued, ReadTold
  <2>5. ClosesOnce(s)'
    BY <1>1, <1>2, <1>3, <2>1
    DEF Local, ClosesOnce, ClosePosted, CloseQueued, CloseTold
  <2>6. QueueServed(s)' /\ OutboxOne(s)' /\ AbortedLate(s)'
    BY <1>1, <1>3, <2>1 DEF Local, QueueServed, WrittenQueued, OutboxOne, AbortedLate
  <2>7. Fresh(s)'
    BY <1>1 DEF Local, Fresh
  <2> QED
    BY <2>2, <2>3, <2>4, <2>5, <2>6, <2>7, OneSession DEF Local
<1>4. CASE /\ running[s] /\ running' = [running EXCEPT ![s] = FALSE]
           /\ strand' = [strand EXCEPT ![s] = Append(Tail(@), CloseHandler)]
  <2>1. /\ CloseHandler \in Handlers /\ CloseHandler \notin ReadHandlers
        /\ CloseHandler \notin OnWrittenHandlers /\ CloseHandler \notin AbortedHandlers
    BY HandlersPosted, HandlerSorts
  <2>2. \A S : /\ Occurs(strand'[s], S) => Occurs(strand[s], S) \/ CloseHandler \in S
               /\ /\ AtMostOnce(strand[s], S)
                  /\ CloseHandler \in S => ~Occurs(strand[s], S)
                  => AtMostOnce(strand'[s], S)
    BY <1>1, <1>4, <2>1, StrandReplaced
  <2>3. /\ running'[s] = FALSE /\ running' \in [Sessions -> BOOLEAN]
        /\ \A t \in Sessions : t # s => running'[t] = running[t]
    BY <1>1, <1>4 DEF SessionTypeOK
  <2>4. SessionTypeOK'
    BY <1>1, <1>4, <2>1, <2>3, StrandReplaced DEF SessionTypeOK
  <2>5. ASSUME NEW t \in Sessions, t # s PROVE Untouched(t)
    BY <1>1, <1>4, <2>1, <2>3, <2>5, StrandReplaced, EventsSame DEF Untouched
  <2>6. OneReadToken(s)'
    BY <1>1, <2>1, <2>2 DEF Local, OneReadToken, ReadPosted, ReadQueued, ReadTold
  <2>7. ClosesOnce(s)'
    BY <1>1, <1>4, <2>1, <2>2, <2>3
    DEF Local, ClosesOnce, ClosePosted, CloseQueued, CloseTold
  <2>8. QueueServed(s)' /\ OutboxOne(s)' /\ AbortedLate(s)'
    BY <1>1, <2>1, <2>2, <2>3
    DEF Local, QueueServed, WrittenQueued, OutboxOne, AbortedLate
  <2>9. Fresh(s)'
    BY <1>1 DEF Local, Fresh
  <2> QED
    BY <2>4, <2>5, <2>6, <2>7, <2>8, <2>9, OneSession DEF Local
<1>5. ASSUME h.result = "aborted" PROVE ~running[s]
  <2>1. h \in AbortedHandlers
    BY <1>2, <1>5, HandlerSorts
  <2>2. Occurs(strand[s], AbortedHandlers)
    BY <1>1, <2>1, OccursTail DEF SessionTypeOK, h
  <2> QED
    BY <1>1, <2>2 DEF Local, AbortedLate, ClosesOnce
<1> QED
  BY <1>3, <1>4, <1>5 DEF HandleError, StopFromHandler, Popped, h

\* onRead() passes the read token to the owner, to handleError() or nobody.
LEMMA OnReadIInv == ASSUME IInv, NEW s \in Sessions, OnRead(s) PROVE IInv'
BY OnReadOkIInv, ErrorIInv DEF OnRead, Popped

\* A chunk queued behind others is left to the write that serves them.
LEMMA QueueChunkIInv == ASSUME IInv, NEW s \in Sessions, QueueChunk(s) PROVE IInv'
<1> DEFINE h == Head(strand[s])
<1>1. /\ SessionTypeOK /\ Local(s) /\ strand[s] # <<>> /\ Popped(s)
      /\ events' = events /\ sendQueue[s] \in Seq(Chunks)
      /\ UNCHANGED <<socket, running, outbox, readOp, arrived, popped, delivered,
                     events, reading>>
  BY DEF IInv, QueueChunk, Runs, Popped, SessionTypeOK
<1>2. /\ h \in Handlers /\ h.chunk \in Chunks /\ h \notin {CloseHandler}
      /\ h \notin ReadHandlers /\ h \notin OnWrittenHandlers
  <2>1. h \in SendHandlers /\ h.op = "send" /\ h.chunk \in Chunks
    BY DEF QueueChunk, Runs, SendHandlers
  <2>2. h \in Handlers
    BY <2>1 DEF Handlers
  <2> HIDE DEF h
  <2> QED
    BY <2>1, <2>2, HandlerSorts
<1>3. \A S : /\ Occurs(strand'[s], S) => Occurs(strand[s], S)
             /\ h \notin S => (Occurs(strand[s], S) => Occurs(strand'[s], S))
             /\ AtMostOnce(strand[s], S) => AtMostOnce(strand'[s], S)
  BY <1>1, StrandPopped
<1>4. strand[s] # <<>> /\ socket[s] # "none"
  BY <1>1 DEF Local, Fresh
<1>5. /\ sendQueue' = [sendQueue EXCEPT ![s] = Append(@, h.chunk)]
      /\ writeOp' = [writeOp EXCEPT ![s] = @ \/ (sendQueue[s] = <<>> /\ running[s])]
  BY DEF QueueChunk
<1> HIDE DEF h
<1>6. /\ sendQueue' \in [Sessions -> Seq(Chunks)]
      /\ sendQueue'[s] # <<>>
      /\ \A t \in Sessions : t # s => sendQueue'[t] = sendQueue[t]
  BY <1>1, <1>2, <1>5, QueueTypes DEF SessionTypeOK
<1>7. /\ writeOp' \in [Sessions -> BOOLEAN]
      /\ writeOp'[s] <=> writeOp[s] \/ (sendQueue[s] = <<>> /\ running[s])
      /\ \A t \in Sessions : t # s => writeOp'[t] = writeOp[t]
  BY <1>1, <1>5 DEF SessionTypeOK
<1>8. SessionTypeOK'
  BY <1>1, <1>6, <1>7, StrandPopped DEF SessionTypeOK
<1>9. ASSUME NEW t \in Sessions, t # s PROVE Untouched(t)
  BY <1>1, <1>6, <1>7, <1>9, StrandPopped, EventsSame DEF Untouched
<1>10. OneReadToken(s)'
  BY <1>1, <1>3 DEF Local, OneReadToken, ReadPosted, ReadQueued, ReadTold
<1>11. ClosesOnce(s)'
  BY <1>1, <1>2, <1>3 DEF Local, ClosesOnce, ClosePosted, CloseQueued, CloseTold
<1>12. QueueServed(s)'
  BY <1>1, <1>2, <1>3, <1>6, <1>7 DEF Local, QueueServed, WrittenQueued
<1>13. OutboxOne(s)' /\ AbortedLate(s)' /\ Fresh(s)'
  BY <1>1, <1>3, <1>4 DEF Local, OutboxOne, AbortedLate, Fresh
<1> QED
  BY <1>8, <1>9, <1>10, <1>11, <1>12, <1>13, OneSession DEF Local

\* The write that ended was the only one, so the next one is.
LEMMA OnWrittenOkIInv ==
  ASSUME IInv, NEW s \in Sessions, Runs(s, OnWrittenHandlers), Popped(s),
         sendQueue' = [sendQueue EXCEPT ![s] = Tail(@)],
         writeOp' = [writeOp EXCEPT ![s] = Tail(sendQueue[s]) # <<>> /\ running[s]],
         UNCHANGED <<socket, running, outbox, readOp, arrived, popped, delivered,
                     events, reading>>
  PROVE  IInv'
<1> DEFINE h == Head(strand[s])
<1>1. SessionTypeOK /\ Local(s) /\ strand[s] # <<>> /\ sendQueue[s] \in Seq(Chunks)
  BY DEF IInv, Runs, SessionTypeOK
<1>2. /\ h \in OnWrittenHandlers /\ h \notin {CloseHandler} /\ h \notin ReadHandlers
  <2>1. h \in OnWrittenHandlers /\ h.op = "onWritten"
    BY DEF Runs, OnWrittenHandlers
  <2>2. h \in Handlers
    BY <2>1 DEF Handlers
  <2> HIDE DEF h
  <2> QED
    BY <2>1, <2>2, HandlerSorts
<1>3. \A S : /\ Occurs(strand'[s], S) => Occurs(strand[s], S)
             /\ h \in S => Occurs(strand[s], S)
             /\ h \notin S => (Occurs(strand[s], S) => Occurs(strand'[s], S))
             /\ AtMostOnce(strand[s], S) =>
                  AtMostOnce(strand'[s], S) /\ (h \in S => ~Occurs(strand'[s], S))
  BY <1>1, StrandPopped
<1> HIDE DEF h
<1>4. ~writeOp[s] /\ sendQueue[s] # <<>> /\ ~WrittenQueued(s)'
  BY <1>1, <1>2, <1>3 DEF Local, QueueServed, WrittenQueued
<1>5. /\ sendQueue' \in [Sessions -> Seq(Chunks)]
      /\ sendQueue'[s] = Tail(sendQueue[s])
      /\ \A t \in Sessions : t # s => sendQueue'[t] = sendQueue[t]
  BY <1>1, <1>4, QueueTypes DEF SessionTypeOK
<1>6. /\ writeOp' \in [Sessions -> BOOLEAN]
      /\ writeOp'[s] <=> Tail(sendQueue[s]) # <<>> /\ running[s]
      /\ \A t \in Sessions : t # s => writeOp'[t] = writeOp[t]
  BY <1>1 DEF SessionTypeOK
<1>7. SessionTypeOK'
  BY <1>1, <1>5, <1>6, StrandPopped DEF SessionTypeOK
<1>8. ASSUME NEW t \in Sessions, t # s PROVE Untouched(t)
  BY <1>1, <1>5, <1>6, <1>8, StrandPopped, EventsSame DEF Untouched
<1>9. OneReadToken(s)'
  BY <1>1, <1>3 DEF Local, OneReadToken, ReadPosted, ReadQueued, ReadTold
<1>10. ClosesOnce(s)'
  BY <1>1, <1>2, <1>3 DEF Local, ClosesOnce, ClosePosted, CloseQueued, CloseTold
<1>11. AtMostOnce(strand'[s], OnWrittenHandlers)
  BY <1>1, <1>3 DEF Local, QueueServed
<1>12. QueueServed(s)'
  BY <1>4, <1>5, <1>6, <1>11 DEF QueueServed
<1>13. OutboxOne(s)' /\ AbortedLate(s)' /\ Fresh(s)'
  BY <1>1, <1>3 DEF Local, OutboxOne, AbortedLate, Fresh
<1> QED
  BY <1>7, <1>8, <1>9, <1>10, <1>12, <1>13, OneSession DEF Local

\* onWritten() pops what was written and writes the next chunk, if any.
LEMMA OnWrittenIInv == ASSUME IInv, NEW s \in Sessions, OnWritten(s) PROVE IInv'
BY OnWrittenOkIInv, ErrorIInv DEF OnWritten, Popped

\* The only close() of a session becomes its only Close event.
LEMMA CloseIInv == ASSUME IInv, NEW s \in Sessions, Close(s) PROVE IInv'
<1>1. /\ SessionTypeOK /\ Local(s) /\ strand[s] # <<>> /\ Popped(s)
      /\ Head(strand[s]) = CloseHandler /\ events \in Seq(Events)
      /\ events' = Append(events, CloseEvent(s))
      /\ UNCHANGED <<running, outbox, readOp, writeOp, sendQueue, arrived, popped,
                     delivered, reading>>
  BY DEF IInv, Close, Runs, Popped, SessionTypeOK, Events
<1>2. /\ CloseHandler \in Handlers /\ CloseHandler \notin ReadHandlers
      /\ CloseHandler \notin OnWrittenHandlers
  BY HandlersPosted, HandlerSorts
<1>3. \A S : /\ Occurs(strand'[s], S) => Occurs(strand[s], S)
             /\ CloseHandler \in S => Occurs(strand[s], S)
             /\ CloseHandler \notin S => (Occurs(strand[s], S) => Occurs(strand'[s], S))
             /\ AtMostOnce(strand[s], S) =>
                  /\ AtMostOnce(strand'[s], S)
                  /\ CloseHandler \in S => ~Occurs(strand'[s], S)
  BY <1>1, StrandPopped
<1>4. /\ socket' \in [Sessions -> {"none", "open", "closed"}]
      /\ socket'[s] = "closed"
      /\ \A t \in Sessions : t # s => socket'[t] = socket[t]
  BY <1>1 DEF Close, SessionTypeOK
<1>5. CloseQueued(s) /\ ~running[s] /\ socket[s] = "open" /\ ~CloseTold(s)
  BY <1>1, <1>3 DEF Local, ClosesOnce, CloseQueued
<1>6. SessionTypeOK'
  <2>1. events' \in Seq(Events)
    BY <1>1, EventSorts, QueueTypes
  <2> QED
    BY <1>1, <1>4, <2>1, StrandPopped DEF SessionTypeOK, Events
<1>7. ASSUME NEW t \in Sessions, t # s PROVE Untouched(t)
  BY <1>1, <1>4, <1>7, StrandPopped, EventsPushed DEF Untouched
<1>8. \A S : /\ Occurs(events', S) <=> Occurs(events, S) \/ CloseEvent(s) \in S
             /\ /\ AtMostOnce(events, S)
                /\ CloseEvent(s) \in S => ~Occurs(events, S)
                => AtMostOnce(events', S)
  BY <1>1, EventSorts, OccursAppend, AtMostOnceAppend
<1>9. CloseEvent(s) \notin {ReceiveEvent(s)}
  BY EventSorts
<1>10. OneReadToken(s)'
  BY <1>1, <1>3, <1>8, <1>9 DEF Local, OneReadToken, ReadPosted, ReadQueued, ReadTold
<1>11. ClosesOnce(s)'
  BY <1>1, <1>3, <1>4, <1>5, <1>8
  DEF Local, ClosesOnce, ClosePosted, CloseQueued, CloseTold
<1>12. QueueServed(s)' /\ OutboxOne(s)'
  BY <1>1, <1>2, <1>3 DEF Local, QueueServed, WrittenQueued, OutboxOne
<1>13. AbortedLate(s)' /\ Fresh(s)'
  BY <1>4 DEF AbortedLate, Fresh
<1> QED
  BY <1>6, <1>7, <1>10, <1>11, <1>12, <1>13, OneSession DEF Local

----------------------------------------------------------------------------
(* The completions. *)

\* The token comes back from the operating system to the strand.
LEMMA CompleteReadIInv == ASSUME IInv, NEW s \in Sessions, CompleteRead(s) PROVE IInv'
<1>1. /\ SessionTypeOK /\ Local(s) /\ readOp[s] /\ events' = events
      /\ readOp' = [readOp EXCEPT ![s] = FALSE]
      /\ UNCHANGED <<socket, running, outbox, writeOp, sendQueue, arrived, popped,
                     delivered, events, reading>>
  BY DEF IInv, CompleteRead
<1>2. PICK h \in OnReadHandlersOf(s) : Pushed(s, h)
  BY DEF CompleteRead, Pushed
<1>3. h \in Handlers /\ h.op = "onRead" /\ (h.result = "aborted" => socket[s] = "closed")
  <2>1. socket[s] \in {"open", "closed"}
    BY <1>1 DEF Local, Fresh, SessionTypeOK
  <2>2. \A n \in MinPackets..MaxPackets - arrived[s] : n \in Nat
    BY <1>1, SessionAssumption DEF SessionTypeOK
  <2>3. \/ socket[s] = "closed" /\ h = OnReadHandler("aborted", 0)
        \/ h = OnReadHandler("fatal", 0)
        \/ \E n \in Nat : h = OnReadHandler("ok", n)
    BY <1>2, <2>1, <2>2 DEF OnReadHandlersOf
  <2> QED
    BY <2>3, HandlersPosted DEF Results
<1>4. /\ h \in ReadHandlers /\ h \notin {CloseHandler} /\ h \notin OnWrittenHandlers
      /\ h \in AbortedHandlers => socket[s] = "closed"
  BY <1>3, HandlerSorts
<1>5. /\ readOp' \in [Sessions -> BOOLEAN] /\ ~readOp'[s]
      /\ \A t \in Sessions : t # s => readOp'[t] = readOp[t]
  BY <1>1 DEF SessionTypeOK
<1>6. \A S : /\ Occurs(strand'[s], S) <=> Occurs(strand[s], S) \/ h \in S
             /\ /\ AtMostOnce(strand[s], S)
                /\ h \in S => ~Occurs(strand[s], S)
                => AtMostOnce(strand'[s], S)
  BY <1>1, <1>2, <1>3, StrandPushed
<1>7. SessionTypeOK'
  BY <1>1, <1>2, <1>3, <1>5, StrandPushed DEF SessionTypeOK
<1>8. ASSUME NEW t \in Sessions, t # s PROVE Untouched(t)
  BY <1>1, <1>2, <1>3, <1>5, <1>8, StrandPushed, EventsSame DEF Untouched
<1>9. OneReadToken(s)'
  BY <1>1, <1>4, <1>5, <1>6 DEF Local, OneReadToken, ReadPosted, ReadQueued, ReadTold
<1>10. ClosesOnce(s)'
  BY <1>1, <1>4, <1>6 DEF Local, ClosesOnce, ClosePosted, CloseQueued, CloseTold
<1>11. QueueServed(s)' /\ OutboxOne(s)' /\ AbortedLate(s)'
  BY <1>1, <1>4, <1>6 DEF Local, QueueServed, WrittenQueued, OutboxOne, AbortedLate
<1>12. Fresh(s)'
  BY <1>1 DEF Local, Fresh
<1> QED
  BY <1>7, <1>8, <1>9, <1>10, <1>11, <1>12, OneSession DEF Local

\* A write completes with the chunk it wrote still at the front of the queue.
LEMMA CompleteWriteIInv ==
  ASSUME IInv, NEW s \in Sessions, CompleteWrite(s) PROVE IInv'
<1>1. /\ SessionTypeOK /\ Local(s) /\ writeOp[s] /\ events' = events
      /\ writeOp' = [writeOp EXCEPT ![s] = FALSE]
      /\ UNCHANGED <<socket, running, outbox, readOp, sendQueue, arrived, popped,
                     events, reading>>
  BY DEF IInv, CompleteWrite
<1>2. PICK r \in WriteResults(s) :
        /\ Pushed(s, OnWrittenHandler(r))
        /\ delivered' = IF r = "ok"
                        THEN [delivered EXCEPT ![s] = Append(@, Head(sendQueue[s]))]
                        ELSE delivered
  BY DEF CompleteWrite, Pushed
<1> DEFINE h == OnWrittenHandler(r)
<1>3. h \in Handlers /\ h.op = "onWritten" /\ (h.result = "aborted" => socket[s] = "closed")
  <2>1. socket[s] \in {"open", "closed"}
    BY <1>1 DEF Local, Fresh, SessionTypeOK
  <2>2. r \in Results /\ (r = "aborted" => socket[s] = "closed")
    BY <1>2, <2>1 DEF WriteResults, Results
  <2> QED
    BY <2>2, HandlersPosted
<1>4. Pushed(s, h)
  BY <1>2
<1> HIDE DEF h
<1>5. /\ h \in OnWrittenHandlers /\ h \notin {CloseHandler} /\ h \notin ReadHandlers
      /\ h \in AbortedHandlers => socket[s] = "closed"
  BY <1>3, HandlerSorts
<1>6. /\ writeOp' \in [Sessions -> BOOLEAN] /\ ~writeOp'[s]
      /\ \A t \in Sessions : t # s => writeOp'[t] = writeOp[t]
  BY <1>1 DEF SessionTypeOK
<1>7. \A S : /\ Occurs(strand'[s], S) <=> Occurs(strand[s], S) \/ h \in S
             /\ /\ AtMostOnce(strand[s], S)
                /\ h \in S => ~Occurs(strand[s], S)
                => AtMostOnce(strand'[s], S)
  BY <1>1, <1>3, <1>4, StrandPushed
<1>8. SessionTypeOK'
  <2>1. sendQueue[s] \in Seq(Chunks) /\ sendQueue[s] # <<>>
    BY <1>1 DEF Local, QueueServed, SessionTypeOK
  <2>2. delivered' \in [Sessions -> Seq(Chunks)]
    BY <1>1, <1>2, <2>1, QueueTypes DEF SessionTypeOK
  <2> QED
    BY <1>1, <1>3, <1>4, <1>6, <2>2, StrandPushed DEF SessionTypeOK
<1>9. ASSUME NEW t \in Sessions, t # s PROVE Untouched(t)
  BY <1>1, <1>3, <1>4, <1>6, <1>9, StrandPushed, EventsSame DEF Untouched
<1>10. OneReadToken(s)'
  BY <1>1, <1>5, <1>7 DEF Local, OneReadToken, ReadPosted, ReadQueued, ReadTold
<1>11. ClosesOnce(s)'
  BY <1>1, <1>5, <1>7 DEF Local, ClosesOnce, ClosePosted, CloseQueued, CloseTold
<1>12. QueueServed(s)'
  BY <1>1, <1>5, <1>6, <1>7 DEF Local, QueueServed, WrittenQueued
<1>13. OutboxOne(s)' /\ AbortedLate(s)' /\ Fresh(s)'
  BY <1>1, <1>5, <1>7 DEF Local, OutboxOne, AbortedLate, Fresh
<1> QED
  BY <1>8, <1>9, <1>10, <1>11, <1>12, <1>13, OneSession DEF Local

----------------------------------------------------------------------------
\* No session exists in the beginning.
LEMMA InitIInv == SessionInit => IInv
<1> SUFFICES ASSUME SessionInit PROVE IInv
  OBVIOUS
<1>1. SessionTypeOK
  BY DEF SessionInit, SessionTypeOK
<1>2. ASSUME NEW s \in Sessions PROVE Local(s)
  <2>1. /\ socket[s] = "none" /\ ~running[s] /\ strand[s] = <<>> /\ outbox[s] = <<>>
        /\ ~readOp[s] /\ ~writeOp[s] /\ sendQueue[s] = <<>> /\ events = <<>>
        /\ reading # s
    BY NoSessionAssumption DEF SessionInit
  <2>2. \A S : /\ ~Occurs(strand[s], S) /\ AtMostOnce(strand[s], S)
               /\ ~Occurs(outbox[s], S)
               /\ ~Occurs(events, S) /\ AtMostOnce(events, S)
    BY <2>1, OccursEmpty
  <2>3. OneReadToken(s)
    BY <2>1, <2>2 DEF OneReadToken, ReadPosted, ReadQueued, ReadTold
  <2>4. ClosesOnce(s)
    BY <2>1, <2>2 DEF ClosesOnce, ClosePosted, CloseQueued, CloseTold
  <2>5. QueueServed(s) /\ OutboxOne(s) /\ AbortedLate(s) /\ Fresh(s)
    BY <2>1, <2>2
    DEF QueueServed, WrittenQueued, OutboxOne, AbortedLate, Fresh, ReadTold, CloseTold
  <2> QED
    BY <2>3, <2>4, <2>5 DEF Local
<1> QED
  BY <1>1, <1>2 DEF IInv

\* The invariant is about the session's variables.
LEMMA StutterIInv == ASSUME IInv, UNCHANGED sessionVars PROVE IInv'
<1>1. SessionTypeOK'
  BY DEF IInv, SessionTypeOK, sessionVars
<1>2. ASSUME NEW t \in Sessions PROVE Untouched(t)
  BY <1>2, EventsSame DEF Untouched, sessionVars
<1> QED
  BY <1>1, <1>2, Frame DEF IInv

\* Each step of the sessions keeps their invariant.
LEMMA NextIInv == ASSUME IInv, [SessionNext]_sessionVars PROVE IInv'
<1>1. ASSUME NEW s \in Sessions, OwnerStep(s) PROVE IInv'
  BY <1>1, StartIInv, PostIInv, StopIInv, SendIInv, TakeEventIInv, TakeReceiveIInv,
     PopFrontPacketIInv, ReceiveIInv DEF OwnerStep
<1>2. ASSUME NEW s \in Sessions, StrandStep(s) PROVE IInv'
  BY <1>2, AsyncReadIInv, OnReadIInv, QueueChunkIInv, OnWrittenIInv, CloseIInv
  DEF StrandStep
<1>3. ASSUME NEW s \in Sessions, CompletionStep(s) PROVE IInv'
  BY <1>3, CompleteReadIInv, CompleteWriteIInv DEF CompletionStep
<1> QED
  BY <1>1, <1>2, <1>3, StutterIInv DEF SessionNext

----------------------------------------------------------------------------
(* The steps as a program takes them that owns the sessions. *)

\* Nothing but start() opens a socket.
OpensNone == \A s \in Sessions : socket'[s] = "open" => socket[s] = "open"

OwnerCall(s) ==
  \/ Post(s) \/ Stop(s) \/ TakeClose(s) \/ SkipReceive(s) \/ TakeReceive(s)
  \/ PopFrontPacket(s) \/ Receive(s) \/ \E c \in Chunks : Send(s, c)

\* A step of the owner, other than Start, keeps the sessions' invariant.
LEMMA OwnerCalls ==
  ASSUME IInv, NEW s \in Sessions, OwnerCall(s)
  PROVE  IInv' /\ socket' = socket
<1>1. IInv'
  BY PostIInv, StopIInv, TakeEventIInv, TakeReceiveIInv, PopFrontPacketIInv, ReceiveIInv,
     SendIInv DEF OwnerCall
<1>2. socket' = socket
  BY DEF OwnerCall, Post, Stop, TakeClose, SkipReceive, TakeReceive, PopFrontPacket, Receive,
     Send
<1> QED
  BY <1>1, <1>2

\* So does what the io threads and the operating system do.
LEMMA IoCalls ==
  ASSUME IInv, NEW s \in Sessions, StrandStep(s) \/ CompletionStep(s)
  PROVE  IInv' /\ OpensNone
<1>1. IInv'
  BY AsyncReadIInv, OnReadIInv, QueueChunkIInv, OnWrittenIInv, CloseIInv, CompleteReadIInv,
     CompleteWriteIInv DEF StrandStep, CompletionStep
<1>2. socket' = socket \/ socket' = [socket EXCEPT ![s] = "closed"]
  BY DEF StrandStep, CompletionStep, AsyncRead, OnRead, QueueChunk, OnWritten, Close,
     CompleteRead, CompleteWrite
<1>3. OpensNone
  BY <1>2 DEF OpensNone, IInv, SessionTypeOK
<1> QED
  BY <1>1, <1>3

----------------------------------------------------------------------------
\* The inductive invariant.
THEOREM Invariance == SessionSpec => []IInv
BY InitIInv, NextIInv, PTL DEF SessionSpec

\* The state keeps its shape; the read offset never passes what has arrived.
THEOREM TypeCorrect == SessionSpec => []SessionTypeOK
<1>1. IInv => SessionTypeOK
  BY DEF IInv
<1> QED
  BY <1>1, Invariance, PTL

\* Session.cpp: no two parties ever hold the right to touch a receive buffer.
THEOREM ReadIsExclusive == SessionSpec => []ReadExclusive
<1>1. IInv => ReadExclusive
  BY DEF IInv, Local, ReadExclusive
<1> QED
  BY <1>1, Invariance, PTL

\* Session.cpp: close() runs once per session and its assertions hold.
THEOREM ClosedOnce == SessionSpec => []CloseProtocol
<1>1. IInv => CloseProtocol
  BY DEF IInv, Local, CloseProtocol
<1> QED
  BY <1>1, Invariance, PTL

\* Session.cpp: one write at a time, and no queued chunk is forgotten.
THEOREM WritesServed == SessionSpec => []WriteServed
<1>1. IInv => WriteServed
  BY DEF IInv, Local, WriteServed
<1> QED
  BY <1>1, Invariance, PTL

----------------------------------------------------------------------------
(* The chunks of the send handlers of a queue, and how they change when it *)
(* is pushed and popped.                                                   *)

\* The number of send handlers grows with each one, from none.
LEMMA SendsCount ==
  ASSUME NEW q \in Seq(Handlers), NEW n \in 0..Len(q)
  PROVE  /\ SendsIn(q, n) \in Nat
         /\ n = 0 => SendsIn(q, n) = 0
         /\ n < Len(q) => SendsIn(q, n + 1) =
                            IF q[n + 1] \in SendHandlers THEN SendsIn(q, n) + 1 ELSE SendsIn(q, n)
<1> DEFINE At(m) == {i \in 1..m : q[i] \in SendHandlers}
<1>1. n \in Nat /\ Len(q) \in Nat
  OBVIOUS
<1>2. IsFiniteSet(At(n))
  <2>1. IsFiniteSet(1..n)
    BY <1>1, FS_Interval
  <2>2. At(n) \in SUBSET (1..n)
    OBVIOUS
  <2> QED
    BY <2>1, <2>2, FS_Subset
<1>3. \A m : SendsIn(q, m) = Cardinality(At(m))
  BY DEF SendsIn
<1>4. n = 0 => At(n) = {}
  BY <1>1
<1>5. n + 1 \notin At(n)
  BY <1>1
<1>6. At(n + 1) = IF q[n + 1] \in SendHandlers THEN At(n) \cup {n + 1} ELSE At(n)
  BY <1>1
<1> HIDE DEF At
<1>7. SendsIn(q, n) \in Nat
  BY <1>2, <1>3, FS_CardinalityType
<1>8. n = 0 => SendsIn(q, n) = 0
  BY <1>3, <1>4, FS_EmptySet
<1>9. SendsIn(q, n + 1) = IF q[n + 1] \in SendHandlers THEN SendsIn(q, n) + 1 ELSE SendsIn(q, n)
  <2>1. Cardinality(At(n) \cup {n + 1}) = Cardinality(At(n)) + 1
    BY <1>2, <1>5, FS_AddElement
  <2>2. CASE q[n + 1] \in SendHandlers
    BY <1>3, <1>6, <2>1, <2>2
  <2>3. CASE q[n + 1] \notin SendHandlers
    BY <1>3, <1>6, <2>3
  <2> QED
    BY <2>2, <2>3
<1> QED
  BY <1>7, <1>8, <1>9

\* A send handler further behind has the greater number.
LEMMA SendsOrder ==
  ASSUME NEW q \in Seq(Handlers), NEW i \in 1..Len(q), NEW j \in 1..Len(q),
         q[j] \in SendHandlers
  PROVE  /\ SendsIn(q, j) \in 1..SendsIn(q, Len(q))
         /\ i < j => SendsIn(q, i) < SendsIn(q, j)
<1> DEFINE At(m) == {k \in 1..m : q[k] \in SendHandlers}
<1>1. Len(q) \in Nat /\ i \in Nat /\ j \in Nat /\ j - 1 \in 0..Len(q) /\ j - 1 + 1 = j
  OBVIOUS
<1>2. \A m \in 0..Len(q), n \in 0..Len(q) : m <= n => SendsIn(q, m) <= SendsIn(q, n)
  <2> SUFFICES ASSUME NEW m \in 0..Len(q), NEW n \in 0..Len(q), m <= n
               PROVE  Cardinality(At(m)) <= Cardinality(At(n))
    BY DEF SendsIn
  <2>1. IsFiniteSet(1..n)
    BY FS_Interval
  <2>2. At(n) \in SUBSET (1..n) /\ At(m) \in SUBSET At(n)
    BY <1>1
  <2> HIDE DEF At
  <2> QED
    BY <2>1, <2>2, FS_Subset
<1>3. SendsIn(q, j) = SendsIn(q, j - 1) + 1 /\ SendsIn(q, j - 1) \in Nat
  BY <1>1, SendsCount
<1>4. SendsIn(q, j) <= SendsIn(q, Len(q)) /\ SendsIn(q, Len(q)) \in Nat
  <2>1. j \in 0..Len(q) /\ Len(q) \in 0..Len(q) /\ j <= Len(q)
    BY <1>1
  <2> QED
    BY <1>2, <2>1, SendsCount
<1>5. i < j => SendsIn(q, i) <= SendsIn(q, j - 1) /\ SendsIn(q, i) \in Nat
  <2>1. i \in 0..Len(q) /\ (i < j => i <= j - 1)
    BY <1>1
  <2> QED
    BY <1>1, <1>2, <2>1, SendsCount
<1> QED
  BY <1>3, <1>4, <1>5

\* Each number belongs to one send handler.
LEMMA SendsOnto ==
  ASSUME NEW q \in Seq(Handlers), NEW k \in 1..SendsIn(q, Len(q))
  PROVE  \E i \in 1..Len(q) : q[i] \in SendHandlers /\ SendsIn(q, i) = k
<1> DEFINE n == SendsIn(q, Len(q))
           P == {i \in 1..Len(q) : q[i] \in SendHandlers}
           f == [i \in P |-> SendsIn(q, i)]
<1>1. n \in Nat /\ Len(q) \in Nat
  BY SendsCount
<1>2. f \in Injection(P, 1..n)
  <2>1. \A i \in P : SendsIn(q, i) \in 1..n
    BY SendsOrder
  <2>2. ASSUME NEW i \in P, NEW j \in P, f[i] = f[j] PROVE i = j
    <3>1. ~(i < j) /\ ~(j < i)
      BY <1>1, <2>1, <2>2, SendsOrder
    <3> QED
      BY <3>1
  <2> QED
    BY <2>1, <2>2 DEF Injection, IsInjective
<1>3. IsFiniteSet(1..n) /\ Cardinality(1..n) = n
  BY <1>1, FS_Interval
<1>4. Cardinality(P) = n
  BY DEF SendsIn
<1>5. f \in Surjection(P, 1..n)
  <2> HIDE DEF f, P, n
  <2> QED
    BY <1>2, <1>3, <1>4, FS_Injection
<1>6. PICK i \in P : f[i] = k
  BY <1>5 DEF Surjection
<1> QED
  BY <1>6

\* A sequence with the chunk of each send handler at its number is ChunksOf.
LEMMA ChunksNumbered ==
  ASSUME NEW q \in Seq(Handlers), NEW r \in Seq(Chunks)
  PROVE  /\ ChunksOf(q) \in Seq(Chunks) /\ Len(ChunksOf(q)) = SendsIn(q, Len(q))
         /\ \A i \in 1..Len(q) :
              q[i] \in SendHandlers => ChunksOf(q)[SendsIn(q, i)] = q[i].chunk
         /\ /\ Len(r) = SendsIn(q, Len(q))
            /\ \A i \in 1..Len(q) : q[i] \in SendHandlers => r[SendsIn(q, i)] = q[i].chunk
            => ChunksOf(q) = r
<1> DEFINE n == SendsIn(q, Len(q))
           Number(i, k) == q[i] \in SendHandlers /\ SendsIn(q, i) = k
           at == [k \in 1..n |-> CHOOSE i \in 1..Len(q) : Number(i, k)]
<1>1. n \in Nat /\ Len(q) \in Nat
  BY SendsCount
<1>2. ASSUME NEW k \in 1..n PROVE at[k] \in 1..Len(q) /\ Number(at[k], k)
  <2>1. \E i \in 1..Len(q) : Number(i, k)
    BY SendsOnto
  <2> HIDE DEF Number
  <2> QED
    BY <2>1
<1>3. ChunksOf(q) = [k \in 1..n |-> q[at[k]].chunk]
  BY DEF ChunksOf
<1> HIDE DEF at
<1>4. \A h \in SendHandlers : h.chunk \in Chunks
  BY DEF SendHandlers
<1>5. \A k \in 1..n : q[at[k]].chunk \in Chunks
  BY <1>2, <1>4
<1>6. ChunksOf(q) \in Seq(Chunks) /\ Len(ChunksOf(q)) = n
  <2> HIDE DEF n
  <2> QED
    BY <1>1, <1>3, <1>5
<1>7. ASSUME NEW i \in 1..Len(q), q[i] \in SendHandlers
      PROVE  SendsIn(q, i) \in 1..n /\ at[SendsIn(q, i)] = i
  <2> DEFINE j == at[SendsIn(q, i)]
  <2>1. SendsIn(q, i) \in 1..n
    BY <1>7, SendsOrder
  <2>2. j \in 1..Len(q) /\ q[j] \in SendHandlers /\ SendsIn(q, j) = SendsIn(q, i)
    BY <1>2, <2>1
  <2> HIDE DEF j
  <2>3. ~(i < j) /\ ~(j < i)
    <3>1. (i < j => SendsIn(q, i) < SendsIn(q, j)) /\ (j < i => SendsIn(q, j) < SendsIn(q, i))
      BY <1>7, <2>2, SendsOrder
    <3>2. SendsIn(q, i) \in Nat
      BY <1>1, <2>1
    <3> QED
      BY <2>2, <3>1, <3>2
  <2>4. j = i
    BY <1>1, <2>2, <2>3
  <2> QED
    BY <2>1, <2>4 DEF j
<1>8. \A i \in 1..Len(q) : q[i] \in SendHandlers => ChunksOf(q)[SendsIn(q, i)] = q[i].chunk
  BY <1>3, <1>7
<1>9. ASSUME Len(r) = n,
             \A i \in 1..Len(q) : q[i] \in SendHandlers => r[SendsIn(q, i)] = q[i].chunk
      PROVE  ChunksOf(q) = r
  <2>1. \A k \in 1..n : r[k] = q[at[k]].chunk
    BY <1>2, <1>9
  <2>2. r = [k \in 1..n |-> r[k]]
    BY <1>9
  <2> HIDE DEF n
  <2> QED
    BY <1>3, <2>1, <2>2
<1> QED
  BY <1>6, <1>8, <1>9

\* The empty queue has no chunks.
LEMMA ChunksEmpty == ChunksOf(<<>>) = <<>>
<1>1. <<>> \in Seq(Handlers) /\ <<>> \in Seq(Chunks) /\ Len(<<>>) = 0 /\ 0 \in 0..0
  OBVIOUS
<1>2. SendsIn(<<>>, Len(<<>>)) = 0
  BY <1>1, SendsCount
<1>3. /\ ChunksOf(<<>>) \in Seq(Chunks)
      /\ Len(ChunksOf(<<>>)) = SendsIn(<<>>, Len(<<>>))
  BY <1>1, ChunksNumbered
<1> QED
  BY <1>2, <1>3

\* push_back of a handler adds its chunk, when it is one of send().
LEMMA ChunksPushed ==
  ASSUME NEW q \in Seq(Handlers), NEW h \in Handlers
  PROVE  ChunksOf(Append(q, h)) =
           IF h \in SendHandlers THEN Append(ChunksOf(q), h.chunk) ELSE ChunksOf(q)
<1> DEFINE p == Append(q, h)
           c == ChunksOf(q)
           r == IF h \in SendHandlers THEN Append(c, h.chunk) ELSE c
           n == Len(q)
<1>1. /\ n \in Nat /\ p \in Seq(Handlers) /\ Len(p) = n + 1 /\ p[n + 1] = h
      /\ \A i \in 1..n : p[i] = q[i]
  BY AppendElements, QueueTypes
<1>2. /\ c \in Seq(Chunks) /\ Len(c) = SendsIn(q, n)
      /\ \A i \in 1..n : q[i] \in SendHandlers => c[SendsIn(q, i)] = q[i].chunk
  <2>1. <<>> \in Seq(Chunks)
    OBVIOUS
  <2> QED
    BY <2>1, ChunksNumbered
<1> HIDE DEF p, c
<1>3. \A i \in 0..n : SendsIn(p, i) = SendsIn(q, i)
  <2> SUFFICES ASSUME NEW i \in 0..n
               PROVE  {j \in 1..i : p[j] \in SendHandlers} = {j \in 1..i : q[j] \in SendHandlers}
    BY DEF SendsIn
  <2> QED
    BY <1>1
<1>4. /\ SendsIn(q, n) \in Nat
      /\ SendsIn(p, n + 1) = IF h \in SendHandlers THEN SendsIn(q, n) + 1 ELSE SendsIn(q, n)
  <2>1. n \in 0..Len(p) /\ n < Len(p) /\ n \in 0..n
    BY <1>1
  <2> HIDE DEF n
  <2> QED
    BY <1>1, <1>3, <2>1, SendsCount
<1>5. h \in SendHandlers => h.chunk \in Chunks
  BY DEF SendHandlers
<1>6. /\ r \in Seq(Chunks) /\ Len(r) = SendsIn(p, n + 1)
      /\ \A k \in 1..SendsIn(q, n) : r[k] = c[k]
      /\ h \in SendHandlers => r[SendsIn(q, n) + 1] = h.chunk
  <2>1. CASE h \in SendHandlers
    <3>1. /\ Append(c, h.chunk) \in Seq(Chunks) /\ Len(Append(c, h.chunk)) = Len(c) + 1
          /\ Append(c, h.chunk)[Len(c) + 1] = h.chunk
          /\ \A k \in 1..Len(c) : Append(c, h.chunk)[k] = c[k]
      BY <1>2, <1>5, <2>1, AppendElements, QueueTypes
    <3> QED
      BY <1>2, <1>4, <2>1, <3>1
  <2>2. CASE h \notin SendHandlers
    BY <1>2, <1>4, <2>2
  <2> QED
    BY <2>1, <2>2
<1> HIDE DEF r, n
<1>7. ASSUME NEW i \in 1..n + 1, p[i] \in SendHandlers PROVE r[SendsIn(p, i)] = p[i].chunk
  <2>1. CASE i \in 1..n
    <3>1. SendsIn(p, i) = SendsIn(q, i) /\ p[i] = q[i]
      BY <1>1, <1>3, <2>1
    <3>2. SendsIn(q, i) \in 1..SendsIn(q, n)
      BY <1>7, <2>1, <3>1, SendsOrder DEF n
    <3> QED
      BY <1>2, <1>6, <1>7, <2>1, <3>1, <3>2
  <2>2. CASE i = n + 1
    BY <1>1, <1>4, <1>6, <1>7, <2>2
  <2> QED
    BY <1>1, <2>1, <2>2
<1>8. ChunksOf(p) = r
  BY <1>1, <1>6, <1>7, ChunksNumbered
<1> QED
  BY <1>8 DEF p, c, r

\* Behind the head of a queue there is one send handler less, or as many.
LEMMA SendsBehind ==
  ASSUME NEW q \in Seq(Handlers), q # <<>>, NEW n \in 0..Len(q) - 1
  PROVE  SendsIn(q, n + 1) =
           IF Head(q) \in SendHandlers THEN SendsIn(Tail(q), n) + 1 ELSE SendsIn(Tail(q), n)
<1> DEFINE p == Tail(q)
           P == {i \in 1..n : p[i] \in SendHandlers}
           Q == {i \in 2..n + 1 : q[i] \in SendHandlers}
           f == [i \in P |-> i + 1]
<1>1. /\ n \in Nat /\ Len(q) \in Nat /\ Head(q) = q[1]
      /\ \A i \in 1..n : p[i] = q[i + 1]
  OBVIOUS
<1>2. f \in Bijection(P, Q)
  <2>1. \A i \in P : i + 1 \in Q
    BY <1>1
  <2>2. \A i, j \in P : i + 1 = j + 1 => i = j
    OBVIOUS
  <2>3. f \in Injection(P, Q)
    BY <2>1, <2>2 DEF Injection, IsInjective
  <2>4. ASSUME NEW j \in Q PROVE \E i \in P : f[i] = j
    <3>1. j - 1 \in P /\ (j - 1) + 1 = j
      BY <1>1
    <3> QED
      BY <3>1
  <2>5. f \in Surjection(P, Q)
    BY <2>1, <2>4 DEF Surjection
  <2> QED
    BY <2>3, <2>5 DEF Bijection
<1>3. IsFiniteSet(P)
  <2>1. IsFiniteSet(1..n)
    BY <1>1, FS_Interval
  <2>2. P \in SUBSET (1..n)
    OBVIOUS
  <2> QED
    BY <2>1, <2>2, FS_Subset
<1>4. IsFiniteSet(Q) /\ Cardinality(Q) = Cardinality(P)
  <2> HIDE DEF P, Q, f
  <2>1. ExistsBijection(P, Q)
    BY <1>2 DEF ExistsBijection
  <2> QED
    BY <1>3, <2>1, FS_Bijection
<1>5. 1 \notin Q
  OBVIOUS
<1>6. {i \in 1..n + 1 : q[i] \in SendHandlers} = IF Head(q) \in SendHandlers THEN Q \cup {1} ELSE Q
  BY <1>1
<1>7. SendsIn(p, n) = Cardinality(P)
  BY DEF SendsIn
<1>8. SendsIn(q, n + 1) = IF Head(q) \in SendHandlers THEN Cardinality(Q) + 1 ELSE Cardinality(Q)
  <2> DEFINE A == {i \in 1..n + 1 : q[i] \in SendHandlers}
  <2>1. SendsIn(q, n + 1) = Cardinality(A)
    BY DEF SendsIn
  <2>2. A = IF Head(q) \in SendHandlers THEN Q \cup {1} ELSE Q
    BY <1>6
  <2> HIDE DEF A, Q
  <2> QED
    BY <1>4, <1>5, <2>1, <2>2, FS_AddElement
<1> QED
  BY <1>4, <1>7, <1>8

\* pop_front of a handler removes its chunk, when it is one of send().
LEMMA ChunksPopped ==
  ASSUME NEW q \in Seq(Handlers), q # <<>>
  PROVE  /\ Head(q) \notin SendHandlers => ChunksOf(Tail(q)) = ChunksOf(q)
         /\ Head(q) \in SendHandlers => ChunksOf(q) = <<Head(q).chunk>> \o ChunksOf(Tail(q))
<1> DEFINE p == Tail(q)
           c == ChunksOf(q)
           d == ChunksOf(p)
<1>1. /\ Len(q) \in Nat /\ 1 <= Len(q) /\ p \in Seq(Handlers) /\ Len(p) = Len(q) - 1
      /\ Head(q) = q[1] /\ \A i \in 1..Len(p) : p[i] = q[i + 1]
  OBVIOUS
<1>2. /\ c \in Seq(Chunks) /\ Len(c) = SendsIn(q, Len(q))
      /\ \A i \in 1..Len(q) : q[i] \in SendHandlers => c[SendsIn(q, i)] = q[i].chunk
  <2>1. <<>> \in Seq(Chunks)
    OBVIOUS
  <2> QED
    BY <2>1, ChunksNumbered
<1>3. /\ d \in Seq(Chunks) /\ Len(d) = SendsIn(p, Len(p))
      /\ \A i \in 1..Len(p) : p[i] \in SendHandlers => d[SendsIn(p, i)] = p[i].chunk
  <2>1. <<>> \in Seq(Chunks)
    OBVIOUS
  <2> HIDE DEF p
  <2> QED
    BY <1>1, <2>1, ChunksNumbered
<1>4. \A n \in 0..Len(p) :
        SendsIn(q, n + 1) = IF Head(q) \in SendHandlers THEN SendsIn(p, n) + 1 ELSE SendsIn(p, n)
  BY <1>1, SendsBehind
<1>5. \A n \in 0..Len(p) : SendsIn(p, n) \in Nat
  BY <1>1, SendsCount
<1>6. Len(p) \in 0..Len(p) /\ 0 \in 0..Len(p) /\ Len(p) + 1 = Len(q) /\ 0 + 1 = 1
  BY <1>1
<1>7. \A i \in 1..Len(p) : i \in 0..Len(p) /\ i + 1 \in 1..Len(q)
  BY <1>1
<1> HIDE DEF p, c, d
<1>8. ASSUME Head(q) \notin SendHandlers PROVE d = c
  <2>1. Len(c) = SendsIn(p, Len(p))
    BY <1>2, <1>4, <1>6, <1>8
  <2>2. \A i \in 1..Len(p) : p[i] \in SendHandlers => c[SendsIn(p, i)] = p[i].chunk
    BY <1>1, <1>2, <1>4, <1>7, <1>8
  <2> QED
    BY <1>1, <1>2, <2>1, <2>2, ChunksNumbered DEF d
<1>9. ASSUME Head(q) \in SendHandlers PROVE c = <<Head(q).chunk>> \o d
  <2> DEFINE r == <<Head(q).chunk>> \o d
  <2>1. Head(q).chunk \in Chunks
    BY <1>9 DEF SendHandlers
  <2>2. /\ r \in Seq(Chunks) /\ Len(r) = 1 + Len(d) /\ r[1] = Head(q).chunk
        /\ \A k \in 1..Len(d) : r[k + 1] = d[k]
    BY <1>3, <2>1
  <2> HIDE DEF r
  <2>3. Len(r) = SendsIn(q, Len(q))
    <3>1. SendsIn(q, Len(p) + 1) = SendsIn(p, Len(p)) + 1 /\ SendsIn(p, Len(p)) \in Nat
      BY <1>4, <1>5, <1>6, <1>9
    <3>2. SendsIn(q, Len(q)) = SendsIn(p, Len(p)) + 1
      BY <1>6, <3>1
    <3> QED
      BY <1>3, <2>2, <3>1, <3>2
  <2>4. ASSUME NEW i \in 1..Len(q), q[i] \in SendHandlers PROVE r[SendsIn(q, i)] = q[i].chunk
    <3>1. CASE i = 1
      <4>1. SendsIn(p, 0) = 0
        BY <1>1, <1>6, SendsCount
      <4>2. SendsIn(q, 1) = 1
        BY <1>4, <1>6, <1>9, <4>1
      <4> QED
        BY <1>1, <2>2, <3>1, <4>2
    <3>2. CASE i # 1
      <4> DEFINE j == i - 1
      <4>1. j \in 1..Len(p) /\ j + 1 = i /\ j \in 0..Len(p)
        BY <1>1, <3>2
      <4> HIDE DEF j
      <4>2. p[j] = q[i] /\ p[j] \in SendHandlers
        BY <1>1, <2>4, <4>1
      <4>3. SendsIn(q, i) = SendsIn(p, j) + 1
        BY <1>4, <1>9, <4>1
      <4>4. SendsIn(p, j) \in 1..Len(d) /\ d[SendsIn(p, j)] = p[j].chunk
        BY <1>1, <1>3, <4>1, <4>2, SendsOrder
      <4> QED
        BY <2>2, <4>2, <4>3, <4>4
    <3> QED
      BY <3>1, <3>2
  <2>5. c = r
    BY <2>2, <2>3, <2>4, ChunksNumbered DEF c
  <2> QED
    BY <2>5 DEF r
<1> QED
  BY <1>8, <1>9 DEF p, c, d

----------------------------------------------------------------------------
(* Session implements SendChannel: what its steps do to Pending.           *)

\* A handler that is not one of send() and does not tell that a chunk has been
\* written.
Passive(h) == h \in Handlers /\ h \notin SendHandlers /\ h # OnWrittenHandler("ok")

SameSends(p, q) ==
  /\ ChunksOf(p) = ChunksOf(q)
  /\ Occurs(p, {OnWrittenHandler("ok")}) <=> Occurs(q, {OnWrittenHandler("ok")})

\* Such handlers come and go unnoticed.
LEMMA PassivePushed ==
  ASSUME NEW q \in Seq(Handlers), NEW h, Passive(h)
  PROVE  SameSends(Append(q, h), q)
<1>1. ChunksOf(Append(q, h)) = ChunksOf(q)
  BY ChunksPushed DEF Passive
<1>2. h \in Handlers /\ h \notin {OnWrittenHandler("ok")}
  BY DEF Passive
<1> QED
  BY <1>1, <1>2, OccursAppend DEF SameSends

\* The same of pop_front.
LEMMA PassivePopped ==
  ASSUME NEW q \in Seq(Handlers), q # <<>>, Passive(Head(q))
  PROVE  SameSends(Tail(q), q)
<1>1. ChunksOf(Tail(q)) = ChunksOf(q)
  BY ChunksPopped DEF Passive
<1>2. Head(q) \notin {OnWrittenHandler("ok")}
  BY DEF Passive
<1> QED
  BY <1>1, <1>2, OccursTail DEF SameSends

\* The handlers that are not passive are known by their op.
LEMMA PassiveSorts ==
  \A h \in Handlers : h.op \in {"asyncRead", "close", "onRead"} => Passive(h)
<1> SUFFICES ASSUME NEW h \in Handlers, h.op \in {"asyncRead", "close", "onRead"}
             PROVE  Passive(h)
  OBVIOUS
<1>1. h \notin SendHandlers
  BY HandlerSorts
<1>2. OnWrittenHandler("ok").op = "onWritten"
  BY DEF OnWrittenHandler
<1> QED
  BY <1>1, <1>2 DEF Passive

\* Posted and forgotten: an empty outbox holds no chunk, and no more does one
\* with a handler that is not one of send().
LEMMA ChunksOfOutbox ==
  /\ ChunksOf(<<>>) = <<>>
  /\ \A h \in Handlers :
       ChunksOf(<<h>>) = IF h \in SendHandlers THEN <<h.chunk>> ELSE <<>>
<1> SUFFICES ASSUME NEW h \in Handlers
             PROVE  ChunksOf(<<h>>) = IF h \in SendHandlers THEN <<h.chunk>> ELSE <<>>
  BY ChunksEmpty
<1>1. <<>> \in Seq(Handlers) /\ Append(<<>>, h) = <<h>> /\ Append(<<>>, h.chunk) = <<h.chunk>>
  OBVIOUS
<1>2. ChunksOf(<<h>>) = IF h \in SendHandlers THEN Append(<<>>, h.chunk) ELSE <<>>
  BY <1>1, ChunksEmpty, ChunksPushed
<1> QED
  BY <1>1, <1>2

\* The parts of what is pending are queues of chunks.
LEMMA PendingParts ==
  ASSUME IInv, NEW s \in Sessions
  PROVE  /\ Unwritten(s) \in Seq(Chunks)
         /\ ChunksOf(strand[s]) \in Seq(Chunks) /\ ChunksOf(outbox[s]) \in Seq(Chunks)
<1>1. /\ sendQueue[s] \in Seq(Chunks) /\ strand[s] \in Seq(Handlers)
      /\ outbox[s] \in Seq(Handlers) /\ <<>> \in Seq(Chunks)
  BY DEF IInv, SessionTypeOK
<1>2. Occurs(strand[s], {OnWrittenHandler("ok")}) => WrittenQueued(s)
  BY DEF Occurs, WrittenQueued, OnWrittenHandlers, OnWrittenHandler, Results
<1>3. WrittenQueued(s) => sendQueue[s] # <<>>
  BY DEF IInv, Local, QueueServed
<1>4. Unwritten(s) \in Seq(Chunks)
  BY <1>1, <1>2, <1>3 DEF Unwritten
<1> QED
  BY <1>1, <1>4, ChunksNumbered

OthersKept(s) ==
  \A t \in Sessions : t # s => /\ strand'[t] = strand[t] /\ outbox'[t] = outbox[t]
                               /\ sendQueue'[t] = sendQueue[t]

\* A step on one session changes what is pending there only.
LEMMA PendingChanged ==
  ASSUME NEW s \in Sessions, OthersKept(s)
  PROVE  Pending' = [Pending EXCEPT ![s] = PendingOf(s)'] /\ Pending[s] = PendingOf(s)
<1>1. ASSUME NEW t \in Sessions, t # s PROVE PendingOf(t)' = PendingOf(t)
  BY <1>1 DEF OthersKept, PendingOf, Unwritten
<1> HIDE DEF PendingOf
<1> QED
  BY <1>1 DEF Pending

\* Passive handlers change nothing that is pending.
LEMMA PendingKept ==
  ASSUME NEW s \in Sessions, OthersKept(s), sendQueue'[s] = sendQueue[s],
         SameSends(strand'[s], strand[s]), ChunksOf(outbox'[s]) = ChunksOf(outbox[s])
  PROVE  Pending' = Pending
<1>1. PendingOf(s)' = PendingOf(s)
  BY DEF PendingOf, Unwritten, SameSends
<1>2. Pending' = [Pending EXCEPT ![s] = PendingOf(s)] /\ Pending[s] = PendingOf(s)
  BY <1>1, PendingChanged
<1> QED
  BY <1>2 DEF Pending

----------------------------------------------------------------------------
(* The steps of a session are steps of the channel. *)

Maps == Channel!Next \/ UNCHANGED Channel!vars

\* start, stop and receive post a handler that carries no chunk.
LEMMA CallMaps ==
  ASSUME IInv, NEW s \in Sessions, OwnerIdle, NEW h \in {AsyncReadHandler, CloseHandler},
         outbox' = [outbox EXCEPT ![s] = <<h>>] \/ outbox' = outbox,
         UNCHANGED <<strand, sendQueue, delivered>>, ClosedSessions' = ClosedSessions
  PROVE  Maps
<1>1. OthersKept(s)
  BY DEF OthersKept, IInv, SessionTypeOK
<1>2. outbox[s] = <<>> /\ outbox'[s] \in {<<>>, <<h>>}
  BY DEF OwnerIdle, IInv, SessionTypeOK
<1>3. h \in Handlers /\ h \notin SendHandlers
  BY HandlersPosted, HandlerSorts
<1>4. ChunksOf(outbox'[s]) = ChunksOf(outbox[s])
  BY <1>2, <1>3, ChunksOfOutbox
<1>5. Pending' = Pending
  BY <1>1, <1>4, PendingKept DEF SameSends
<1> QED
  BY <1>5 DEF Maps, Channel!vars

\* send() accepts a chunk.
LEMMA SendMaps == ASSUME IInv, NEW s \in Sessions, NEW c \in Chunks, Send(s, c) PROVE Maps
<1> DEFINE w == Unwritten(s) \o ChunksOf(strand[s])
<1>1. OthersKept(s) /\ outbox[s] = <<>> /\ outbox'[s] = <<SendHandler(c)>>
  BY DEF Send, OthersKept, OwnerIdle, IInv, SessionTypeOK
<1>2. SendHandler(c) \in Handlers /\ SendHandler(c) \in SendHandlers /\ SendHandler(c).chunk = c
  BY HandlersPosted, HandlerSorts DEF SendHandler
<1>3. ChunksOf(outbox[s]) = <<>> /\ ChunksOf(outbox'[s]) = <<c>>
  BY <1>1, <1>2, ChunksOfOutbox
<1>4. w \in Seq(Chunks)
  BY PendingParts, ConcatProperties
<1>5. PendingOf(s) = w
  BY <1>3, <1>4, ConcatEmptySeq DEF PendingOf
<1>6. Unwritten(s)' = Unwritten(s) /\ ChunksOf(strand[s])' = ChunksOf(strand[s])
  BY DEF Send, Unwritten
<1>7. PendingOf(s)' = w \o <<c>>
  BY <1>3, <1>6 DEF PendingOf
<1> HIDE DEF w
<1>8. PendingOf(s)' = Append(PendingOf(s), c)
  BY <1>4, <1>5, <1>7, AppendIsConcat
<1>9. Pending' = [Pending EXCEPT ![s] = Append(Pending[s], c)]
  BY <1>1, <1>8, PendingChanged
<1>10. UNCHANGED <<delivered, ClosedSessions>>
  BY DEF Send, ClosedSessions
<1>11. Channel!Accept(s, c)
  BY <1>9, <1>10 DEF Channel!Accept
<1> QED
  BY <1>11 DEF Maps, Channel!Next

\* The handler posted last comes behind those on the strand.
LEMMA PostMaps == ASSUME IInv, NEW s \in Sessions, Post(s) PROVE Maps
<1>1. PICK h \in OwnerHandlers : outbox[s] = <<h>>
  BY DEF IInv, Local, OutboxOne, Post
<1>2. h \in Handlers /\ h.op \in {"asyncRead", "close", "send"}
  BY HandlersPosted DEF OwnerHandlers, Handlers, SendHandlers
<1>3. /\ OthersKept(s) /\ strand'[s] = Append(strand[s], h) /\ outbox'[s] = <<>>
      /\ strand[s] \in Seq(Handlers) /\ sendQueue' = sendQueue
  BY <1>1 DEF Post, OthersKept, IInv, SessionTypeOK
<1>4. UNCHANGED <<delivered, ClosedSessions>>
  BY DEF Post, ClosedSessions
<1>5. CASE h \notin SendHandlers
  <2>1. Passive(h)
    BY <1>2, <1>5, PassiveSorts, HandlerSorts
  <2>2. SameSends(strand'[s], strand[s])
    BY <1>3, <2>1, PassivePushed
  <2>3. ChunksOf(outbox'[s]) = ChunksOf(outbox[s])
    BY <1>1, <1>2, <1>3, <1>5, ChunksOfOutbox
  <2>4. Pending' = Pending
    BY <1>3, <2>2, <2>3, PendingKept
  <2> QED
    BY <1>4, <2>4 DEF Maps, Channel!vars
<1>6. CASE h \in SendHandlers
  <2> DEFINE u == Unwritten(s)
             a == ChunksOf(strand[s])
             c == h.chunk
  <2>1. c \in Chunks /\ u \in Seq(Chunks) /\ a \in Seq(Chunks)
    BY <1>6, PendingParts DEF SendHandlers
  <2>2. ChunksOf(strand'[s]) = Append(a, c)
    BY <1>2, <1>3, <1>6, ChunksPushed
  <2>3. ChunksOf(outbox[s]) = <<c>> /\ ChunksOf(outbox'[s]) = <<>>
    BY <1>1, <1>2, <1>3, <1>6, ChunksOfOutbox
  <2>4. Occurs(strand'[s], {OnWrittenHandler("ok")}) <=> Occurs(strand[s], {OnWrittenHandler("ok")})
    <3>1. h \notin {OnWrittenHandler("ok")}
      BY <1>2 DEF OnWrittenHandler
    <3> QED
      BY <1>2, <1>3, <3>1, OccursAppend
  <2>5. Unwritten(s)' = u
    BY <1>3, <2>4 DEF Unwritten
  <2>6. PendingOf(s) = u \o a \o <<c>> /\ PendingOf(s)' = u \o Append(a, c) \o <<>>
    BY <2>2, <2>3, <2>5 DEF PendingOf
  <2> HIDE DEF u, a, c
  <2>7. <<c>> \in Seq(Chunks) /\ Append(a, c) \in Seq(Chunks) /\ u \o Append(a, c) \in Seq(Chunks)
    BY <2>1, AppendProperties, ConcatProperties
  <2>8. u \o a \o <<c>> = u \o (a \o <<c>>)
    BY <2>1, <2>7, ConcatAssociative
  <2>9. a \o <<c>> = Append(a, c)
    BY <2>1, AppendIsConcat
  <2>10. u \o Append(a, c) \o <<>> = u \o Append(a, c)
    BY <2>7, ConcatEmptySeq
  <2>11. Pending' = [Pending EXCEPT ![s] = PendingOf(s)] /\ Pending[s] = PendingOf(s)
    BY <1>3, <2>6, <2>8, <2>9, <2>10, PendingChanged
  <2>12. Pending' = Pending
    BY <2>11 DEF Pending
  <2> QED
    BY <1>4, <2>12 DEF Maps, Channel!vars
<1> QED
  BY <1>5, <1>6

\* Handlers that run without touching the send queue, stop() included.
LEMMA HandlerMaps ==
  ASSUME IInv, NEW s \in Sessions, strand[s] # <<>>, Passive(Head(strand[s])),
         Popped(s) \/ strand' = [strand EXCEPT ![s] = Append(Tail(@), CloseHandler)],
         UNCHANGED <<outbox, sendQueue, delivered>>
  PROVE  /\ Pending' = Pending
         /\ ClosedSessions' = ClosedSessions => Maps
<1>1. strand[s] \in Seq(Handlers) /\ Tail(strand[s]) \in Seq(Handlers)
  BY QueueTypes DEF IInv, SessionTypeOK
<1>2. SameSends(Tail(strand[s]), strand[s])
  BY <1>1, PassivePopped
<1>3. SameSends(Append(Tail(strand[s]), CloseHandler), Tail(strand[s]))
  BY <1>1, PassivePushed, PassiveSorts, HandlersPosted
<1>4. strand'[s] \in {Tail(strand[s]), Append(Tail(strand[s]), CloseHandler)} /\ OthersKept(s)
  BY DEF Popped, OthersKept, IInv, SessionTypeOK
<1>5. SameSends(strand'[s], strand[s])
  BY <1>2, <1>3, <1>4 DEF SameSends
<1>6. Pending' = Pending
  BY <1>4, <1>5, PendingKept
<1> QED
  BY <1>6 DEF Maps, Channel!vars

\* The handler of send() moves its chunk to the end of the send queue.
LEMMA QueueChunkMaps == ASSUME IInv, NEW s \in Sessions, QueueChunk(s) PROVE Maps
<1> DEFINE h == Head(strand[s])
           c == h.chunk
           q == sendQueue[s]
           u == Unwritten(s)
           a == ChunksOf(Tail(strand[s]))
           b == ChunksOf(outbox[s])
<1>1. /\ strand[s] \in Seq(Handlers) /\ strand[s] # <<>> /\ h \in SendHandlers
      /\ strand'[s] = Tail(strand[s]) /\ sendQueue'[s] = Append(q, c) /\ OthersKept(s)
      /\ q \in Seq(Chunks) /\ outbox' = outbox
  BY DEF QueueChunk, Runs, OthersKept, IInv, SessionTypeOK
<1>2. c \in Chunks /\ h \in Handlers /\ Tail(strand[s]) \in Seq(Handlers)
  BY <1>1, QueueTypes DEF SendHandlers
<1>3. ChunksOf(strand[s]) = <<c>> \o a /\ ChunksOf(strand'[s]) = a
  BY <1>1, ChunksPopped
<1>4. u \in Seq(Chunks) /\ a \in Seq(Chunks) /\ b \in Seq(Chunks) /\ <<c>> \in Seq(Chunks)
  <2>1. <<>> \in Seq(Chunks) /\ <<c>> \in Seq(Chunks)
    BY <1>2
  <2> QED
    BY <1>2, <2>1, PendingParts, ChunksNumbered
<1>5. Occurs(strand'[s], {OnWrittenHandler("ok")}) <=> Occurs(strand[s], {OnWrittenHandler("ok")})
  <2>1. h \notin {OnWrittenHandler("ok")}
    BY <1>1 DEF SendHandlers, OnWrittenHandler
  <2> QED
    BY <1>1, <2>1, OccursTail
<1>6. Unwritten(s)' = Append(u, c)
  <2>1. CASE Occurs(strand[s], {OnWrittenHandler("ok")})
    <3>1. q # <<>>
      BY <2>1 DEF IInv, Local, QueueServed, WrittenQueued, Occurs, OnWrittenHandlers,
                  OnWrittenHandler, Results
    <3>2. Tail(Append(q, c)) = Append(Tail(q), c)
      BY <1>1, <1>2, <3>1, TailOfAppend
    <3> QED
      BY <1>1, <1>5, <2>1, <3>2 DEF Unwritten
  <2>2. CASE ~Occurs(strand[s], {OnWrittenHandler("ok")})
    BY <1>1, <1>5, <2>2 DEF Unwritten
  <2> QED
    BY <2>1, <2>2
<1>7. PendingOf(s) = u \o (<<c>> \o a) \o b /\ PendingOf(s)' = Append(u, c) \o a \o b
  BY <1>1, <1>3, <1>6 DEF PendingOf
<1>8. UNCHANGED <<delivered, ClosedSessions>>
  BY DEF QueueChunk, ClosedSessions
<1> HIDE DEF h, c, q, u, a, b
<1>9. Append(u, c) = u \o <<c>>
  BY <1>2, <1>4, AppendIsConcat
<1>10. u \o <<c>> \o a = u \o (<<c>> \o a)
  BY <1>4, ConcatAssociative
<1>11. Pending' = [Pending EXCEPT ![s] = PendingOf(s)] /\ Pending[s] = PendingOf(s)
  BY <1>1, <1>7, <1>9, <1>10, PendingChanged
<1>12. Pending' = Pending
  BY <1>11 DEF Pending
<1> QED
  BY <1>8, <1>12 DEF Maps, Channel!vars

\* onWritten() removes the chunk that the channel has delivered already.
LEMMA OnWrittenMaps == ASSUME IInv, NEW s \in Sessions, OnWritten(s) PROVE Maps
<1> DEFINE h == Head(strand[s])
<1>1. /\ strand[s] \in Seq(Handlers) /\ strand[s] # <<>> /\ h \in OnWrittenHandlers
      /\ h \in Handlers /\ UNCHANGED <<outbox, delivered, ClosedSessions>>
  BY QueueTypes DEF OnWritten, Runs, ClosedSessions, IInv, SessionTypeOK
<1>2. h = OnWrittenHandler(h.result)
  BY <1>1 DEF OnWrittenHandlers, OnWrittenHandler
<1>3. h \notin SendHandlers
  BY <1>1, HandlerSorts
<1>4. AtMostOnce(strand[s], OnWrittenHandlers)
  BY DEF IInv, Local, QueueServed
<1>5. ~Occurs(Tail(strand[s]), {OnWrittenHandler("ok")})
  <2>1. ~Occurs(Tail(strand[s]), OnWrittenHandlers)
    BY <1>1, <1>4, AtMostOnceTail
  <2> QED
    BY <2>1 DEF Occurs, OnWrittenHandlers, OnWrittenHandler, Results
<1>6. CASE h.result = "ok"
  <2>1. strand'[s] = Tail(strand[s]) /\ sendQueue'[s] = Tail(sendQueue[s]) /\ OthersKept(s)
    BY <1>6 DEF OnWritten, HandleError, OthersKept, IInv, SessionTypeOK
  <2>2. Occurs(strand[s], {OnWrittenHandler("ok")})
    BY <1>1, <1>2, <1>6, OccursTail
  <2>3. Unwritten(s)' = Unwritten(s)
    BY <1>5, <2>1, <2>2 DEF Unwritten
  <2>4. ChunksOf(strand'[s]) = ChunksOf(strand[s])
    BY <1>1, <1>3, <2>1, ChunksPopped
  <2>5. PendingOf(s)' = PendingOf(s)
    BY <1>1, <2>3, <2>4 DEF PendingOf
  <2>6. Pending' = [Pending EXCEPT ![s] = PendingOf(s)] /\ Pending[s] = PendingOf(s)
    BY <2>1, <2>5, PendingChanged
  <2>7. Pending' = Pending
    BY <2>6 DEF Pending
  <2> QED
    BY <1>1, <2>7 DEF Maps, Channel!vars
<1>7. CASE h.result # "ok"
  <2>1. Passive(h)
    <3>1. OnWrittenHandler("ok").result = "ok"
      BY DEF OnWrittenHandler
    <3> QED
      BY <1>1, <1>3, <1>7, <3>1 DEF Passive
  <2>2. /\ Popped(s) \/ strand' = [strand EXCEPT ![s] = Append(Tail(@), CloseHandler)]
        /\ sendQueue' = sendQueue
    BY <1>7 DEF OnWritten, HandleError, StopFromHandler, Popped
  <2> QED
    BY <1>1, <2>1, <2>2, HandlerMaps
<1> QED
  BY <1>6, <1>7

\* The head of a concatenation is the head of its first part, if that has one.
LEMMA ConcatTail ==
  ASSUME NEW T, NEW x \in Seq(T), x # <<>>, NEW y \in Seq(T)
  PROVE  /\ x \o y \in Seq(T) /\ x \o y # <<>> /\ Head(x \o y) = Head(x)
         /\ Tail(x \o y) = Tail(x) \o y
<1> DEFINE z == x \o y
<1>1. /\ z \in Seq(T) /\ Len(z) = Len(x) + Len(y) /\ Len(x) \in Nat /\ Len(x) >= 1
      /\ Len(y) \in Nat
      /\ \A i \in 1..Len(x) + Len(y) : z[i] = IF i <= Len(x) THEN x[i] ELSE y[i - Len(x)]
  BY ConcatProperties
<1>2. /\ Tail(x) \in Seq(T) /\ Len(Tail(x)) = Len(x) - 1
      /\ \A i \in 1..Len(x) - 1 : Tail(x)[i] = x[i + 1]
  OBVIOUS
<1> DEFINE v == Tail(x) \o y
<1>3. /\ v \in Seq(T) /\ Len(v) = (Len(x) - 1) + Len(y)
      /\ \A i \in 1..(Len(x) - 1) + Len(y) :
           v[i] = IF i <= Len(x) - 1 THEN Tail(x)[i] ELSE y[i - (Len(x) - 1)]
  BY <1>2, ConcatProperties
<1> HIDE DEF z, v
<1>4. z # <<>> /\ Head(z) = z[1] /\ z[1] = x[1] /\ Head(x) = x[1]
  BY <1>1
<1> DEFINE t == Tail(z)
<1>5. /\ t \in Seq(T) /\ Len(t) = Len(z) - 1
      /\ \A i \in 1..Len(z) - 1 : t[i] = z[i + 1]
  BY <1>1, <1>4
<1> HIDE DEF t
<1>6. ASSUME NEW i \in 1..(Len(x) - 1) + Len(y) PROVE t[i] = v[i]
  <2>1. i + 1 \in 1..Len(x) + Len(y) /\ i \in 1..Len(z) - 1 /\ t[i] = z[i + 1]
    BY <1>1, <1>5
  <2>2. CASE i <= Len(x) - 1
    <3>1. i + 1 <= Len(x) /\ i \in 1..Len(x) - 1
      BY <1>1, <2>2
    <3>2. t[i] = z[i + 1]
      BY <2>1
    <3>3. z[i + 1] = x[i + 1]
      BY <1>1, <2>1, <3>1
    <3>4. Tail(x)[i] = x[i + 1]
      BY <1>2, <3>1
    <3>5. v[i] = Tail(x)[i]
      BY <1>3, <2>2
    <3> QED
      BY <3>2, <3>3, <3>4, <3>5
  <2>3. CASE ~(i <= Len(x) - 1)
    <3>1. ~(i + 1 <= Len(x)) /\ i + 1 - Len(x) = i - (Len(x) - 1)
      BY <1>1, <2>3
    <3>2. t[i] = z[i + 1]
      BY <2>1
    <3>3. z[i + 1] = y[i + 1 - Len(x)]
      BY <1>1, <2>1, <3>1
    <3>4. v[i] = y[i - (Len(x) - 1)]
      BY <1>3, <2>3
    <3> QED
      BY <3>1, <3>2, <3>3, <3>4
  <2> QED
    BY <2>2, <2>3
<1>7. Len(t) = Len(v)
  BY <1>1, <1>3, <1>5
<1>8. t = v
  BY <1>3, <1>5, <1>6, <1>7, SeqEqual
<1> QED
  BY <1>1, <1>4, <1>8 DEF z, t, v

\* A completed write delivers what has been pending for longest.
LEMMA CompleteWriteMaps == ASSUME IInv, NEW s \in Sessions, CompleteWrite(s) PROVE Maps
<1> DEFINE q == sendQueue[s]
           a == ChunksOf(strand[s])
           b == ChunksOf(outbox[s])
<1>1. PICK r \in WriteResults(s) :
        /\ strand' = [strand EXCEPT ![s] = Append(@, OnWrittenHandler(r))]
        /\ delivered' = IF r = "ok"
                        THEN [delivered EXCEPT ![s] = Append(@, Head(q))]
                        ELSE delivered
  BY DEF CompleteWrite
<1>2. /\ r \in Results /\ (r = "ok" => socket[s] = "open")
  BY DEF WriteResults, Results
<1>3. /\ OnWrittenHandler(r) \in Handlers /\ OnWrittenHandler(r) \notin SendHandlers
      /\ r # "ok" => OnWrittenHandler(r) # OnWrittenHandler("ok")
  BY <1>2, HandlersPosted, HandlerSorts DEF Results
<1>4. /\ strand[s] \in Seq(Handlers) /\ strand'[s] = Append(strand[s], OnWrittenHandler(r))
      /\ OthersKept(s) /\ sendQueue' = sendQueue /\ outbox' = outbox
  BY <1>1 DEF CompleteWrite, OthersKept, IInv, SessionTypeOK
<1>5. ClosedSessions' = ClosedSessions
  BY DEF CompleteWrite, ClosedSessions
<1>6. q # <<>> /\ q \in Seq(Chunks) /\ ~WrittenQueued(s)
  BY DEF CompleteWrite, IInv, SessionTypeOK, Local, QueueServed
<1>7. CASE r # "ok"
  <2>1. SameSends(strand'[s], strand[s])
    BY <1>3, <1>4, <1>7, PassivePushed DEF Passive
  <2>2. Pending' = Pending
    BY <1>4, <2>1, PendingKept
  <2> QED
    BY <1>1, <1>5, <1>7, <2>2 DEF Maps, Channel!vars
<1>8. CASE r = "ok"
  <2>1. ~Occurs(strand[s], {OnWrittenHandler("ok")})
    BY <1>6 DEF WrittenQueued, Occurs, OnWrittenHandlers, OnWrittenHandler, Results
  <2>2. Occurs(strand'[s], {OnWrittenHandler("ok")})
    BY <1>3, <1>4, <1>8, OccursAppend
  <2>3. Unwritten(s) = q /\ Unwritten(s)' = Tail(q)
    BY <1>4, <2>1, <2>2 DEF Unwritten
  <2>4. ChunksOf(strand'[s]) = a
    BY <1>3, <1>4, ChunksPushed
  <2>5. PendingOf(s) = q \o a \o b /\ PendingOf(s)' = Tail(q) \o a \o b
    BY <1>4, <2>3, <2>4 DEF PendingOf
  <2>6. a \in Seq(Chunks) /\ b \in Seq(Chunks)
    BY PendingParts
  <2> HIDE DEF q, a, b
  <2>7. /\ q \o a \in Seq(Chunks) /\ q \o a # <<>> /\ Head(q \o a) = Head(q)
        /\ Tail(q \o a) = Tail(q) \o a
    BY <1>6, <2>6, ConcatTail
  <2>8. /\ PendingOf(s) # <<>> /\ Head(PendingOf(s)) = Head(q)
        /\ Tail(PendingOf(s)) = PendingOf(s)'
    <3> DEFINE d == q \o a
    <3>1. d \in Seq(Chunks) /\ d # <<>>
      BY <2>7
    <3>2. PendingOf(s) = d \o b
      BY <2>5
    <3> HIDE DEF d
    <3>3. d \o b # <<>> /\ Head(d \o b) = Head(d) /\ Tail(d \o b) = Tail(d) \o b
      BY <2>6, <3>1, ConcatTail
    <3>4. Head(d) = Head(q) /\ Tail(d) = Tail(q) \o a
      BY <2>7 DEF d
    <3> QED
      BY <2>5, <3>2, <3>3, <3>4
  <2>9. Pending' = [Pending EXCEPT ![s] = Tail(Pending[s])] /\ Pending[s] = PendingOf(s)
    BY <1>4, <2>8, PendingChanged
  <2>10. s \notin ClosedSessions
    BY <1>2, <1>8 DEF ClosedSessions
  <2>11. delivered' = [delivered EXCEPT ![s] = Append(@, Head(Pending[s]))]
    BY <1>1, <1>8, <2>8, <2>9
  <2>12. Channel!Deliver(s)
    BY <1>5, <2>8, <2>9, <2>10, <2>11 DEF Channel!Deliver
  <2> QED
    BY <2>12 DEF Maps, Channel!Next
<1> QED
  BY <1>7, <1>8

\* What the program and the io threads may do to the sessions.  A program that
\* sends a chunk twice on a session leaves SessionNext, but not SessionCall.
SessionCall ==
  \E s \in Sessions : Start(s) \/ OwnerCall(s) \/ StrandStep(s) \/ CompletionStep(s)

\* Every step of the sessions is a step of the channel, or a stutter.
LEMMA CallIsMapped == ASSUME IInv, SessionCall PROVE Maps
<1>1. PICK s \in Sessions : Start(s) \/ OwnerCall(s) \/ StrandStep(s) \/ CompletionStep(s)
  BY DEF SessionCall
<1>2. CASE Start(s)
  <2>1. /\ OwnerIdle /\ outbox' = [outbox EXCEPT ![s] = <<AsyncReadHandler>>]
        /\ UNCHANGED <<strand, sendQueue, delivered>>
    BY <1>2 DEF Start
  <2>2. ClosedSessions' = ClosedSessions
    BY <1>2 DEF Start, ClosedSessions, IInv, SessionTypeOK
  <2> QED
    BY <2>1, <2>2, CallMaps
<1>3. CASE Stop(s) \/ Receive(s)
  <2>1. /\ OwnerIdle /\ UNCHANGED <<strand, sendQueue, delivered>>
        /\ ClosedSessions' = ClosedSessions
    BY <1>3 DEF Stop, Receive, ClosedSessions
  <2>2. \E h \in {AsyncReadHandler, CloseHandler} :
          outbox' = [outbox EXCEPT ![s] = <<h>>] \/ outbox' = outbox
    BY <1>3 DEF Stop, Receive
  <2> QED
    BY <2>1, <2>2, CallMaps
<1>4. CASE TakeClose(s) \/ TakeReceive(s) \/ SkipReceive(s) \/ PopFrontPacket(s)
  <2>1. UNCHANGED <<strand, outbox, sendQueue, delivered, ClosedSessions>>
    BY <1>4 DEF TakeClose, TakeReceive, SkipReceive, PopFrontPacket, ClosedSessions
  <2>2. Pending' = Pending
    BY <2>1 DEF Pending, PendingOf, Unwritten
  <2> QED
    BY <2>1, <2>2 DEF Maps, Channel!vars
<1>5. CASE AsyncRead(s) \/ OnRead(s)
  <2>1. /\ strand[s] # <<>> /\ Head(strand[s]) \in ReadHandlers
        /\ Popped(s) \/ strand' = [strand EXCEPT ![s] = Append(Tail(@), CloseHandler)]
        /\ UNCHANGED <<outbox, sendQueue, delivered>>
    BY <1>5 DEF AsyncRead, OnRead, Runs, ReadHandlers, HandleError, StopFromHandler, Popped
  <2>2. ClosedSessions' = ClosedSessions
    BY <1>5 DEF AsyncRead, OnRead, ClosedSessions
  <2>3. Passive(Head(strand[s]))
    <3>1. Head(strand[s]) \in Handlers
      BY <2>1 DEF Handlers
    <3> QED
      BY <2>1, <3>1, HandlerSorts, PassiveSorts
  <2> QED
    BY <2>1, <2>2, <2>3, HandlerMaps
<1>6. CASE Close(s)
  <2>1. /\ strand[s] # <<>> /\ Head(strand[s]) = CloseHandler /\ Popped(s)
        /\ UNCHANGED <<outbox, sendQueue, delivered>>
    BY <1>6 DEF Close, Runs, Popped
  <2>2. Pending' = Pending
    BY <2>1, HandlerMaps, PassiveSorts, HandlersPosted
  <2>3. ClosedSessions' = ClosedSessions \cup {s}
    BY <1>6 DEF Close, ClosedSessions, IInv, SessionTypeOK
  <2>4. Channel!Close(s)
    BY <2>1, <2>2, <2>3 DEF Channel!Close
  <2> QED
    BY <2>4 DEF Maps, Channel!Next
<1>7. CASE CompleteRead(s)
  <2>1. PICK h \in OnReadHandlersOf(s) : strand' = [strand EXCEPT ![s] = Append(@, h)]
    BY <1>7 DEF CompleteRead
  <2>2. h \in Handlers /\ h.op = "onRead"
    <3>1. \A n \in MinPackets..MaxPackets - arrived[s] : n \in Nat
      BY ReadCounts DEF IInv
    <3> QED
      BY <3>1, HandlersPosted DEF OnReadHandlersOf, Results
  <2>3. /\ strand[s] \in Seq(Handlers) /\ strand'[s] = Append(strand[s], h) /\ OthersKept(s)
        /\ UNCHANGED <<outbox, sendQueue, delivered, ClosedSessions>>
    BY <1>7, <2>1 DEF CompleteRead, OthersKept, IInv, SessionTypeOK, ClosedSessions
  <2>4. SameSends(strand'[s], strand[s])
    BY <2>2, <2>3, PassiveSorts, PassivePushed
  <2>5. Pending' = Pending
    BY <2>3, <2>4, PendingKept
  <2> QED
    BY <2>3, <2>5 DEF Maps, Channel!vars
<1>8. CASE \E c \in Chunks : Send(s, c)
  BY <1>8, SendMaps
<1> QED
  BY <1>1, <1>2, <1>3, <1>4, <1>5, <1>6, <1>7, <1>8, PostMaps, QueueChunkMaps, OnWrittenMaps,
     CompleteWriteMaps DEF OwnerCall, StrandStep, CompletionStep

\* The steps of a program that uses its sessions as SessionCall says, or
\* leaves them alone, are steps of the channel.
LEMMA ChannelSteps ==
  ASSUME IInv, [SessionCall]_sessionVars
  PROVE  [Channel!Next]_(Channel!vars)
<1>1. CASE UNCHANGED sessionVars
  <2>1. UNCHANGED <<Pending, delivered, ClosedSessions>>
    BY <1>1 DEF sessionVars, Pending, PendingOf, Unwritten, ClosedSessions
  <2> QED
    BY <2>1 DEF Channel!vars
<1> QED
  BY <1>1, CallIsMapped DEF Maps

\* Without sessions nothing is pending and nothing is closed.
LEMMA InitChannel == SessionInit => Channel!Init
<1> SUFFICES ASSUME SessionInit PROVE Channel!Init
  OBVIOUS
<1>1. ASSUME NEW s \in Sessions PROVE PendingOf(s) = <<>>
  <2>1. sendQueue[s] = <<>> /\ strand[s] = <<>> /\ outbox[s] = <<>>
    BY DEF SessionInit
  <2>2. Unwritten(s) = <<>>
    BY <2>1, OccursEmpty DEF Unwritten
  <2> QED
    BY <2>1, <2>2, ChunksEmpty DEF PendingOf
<1>2. Pending = [s \in Sessions |-> <<>>]
  BY <1>1 DEF Pending
<1> QED
  BY <1>2 DEF SessionInit, ClosedSessions, Channel!Init

\* Session.cpp: chunks given to send() reach the network whole, once, in the
\* order of the calls, and none after close(), for any number of sessions and
\* chunks: the sessions implement SendChannel.
THEOREM SendsImplement == SessionSpec => ImplementsSendChannel
<1>1. SessionNext => SessionCall
  BY DEF SessionNext, SessionCall, OwnerStep, OwnerCall
<1>2. IInv /\ [SessionNext]_sessionVars => [Channel!Next]_(Channel!vars)
  BY <1>1, ChannelSteps
<1> QED
  BY <1>2, InitChannel, Invariance, PTL DEF SessionSpec, ImplementsSendChannel, Channel!Spec

====
