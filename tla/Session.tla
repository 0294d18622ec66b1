---- MODULE Session ----
(***************************************************************************)
(* net::Session (Network/Session.cpp): a TCP connection shared by the      *)
(* thread that owns it (the main loop of a server or a client), the        *)
(* handlers that the io threads run one at a time on its strand, and the   *)
(* operating system that completes its socket operations.                  *)
(*                                                                         *)
(* The public operations load or exchange m_running and then post a        *)
(* handler; the owner may be preempted in between, so such a handler is    *)
(* first put in outbox and posted by a step of its own.  A strand handler  *)
(* is one step: nothing else touches what it touches meanwhile, except for *)
(* m_running, which it reads once.                                         *)
(*                                                                         *)
(* A packet is counted when it is whole.  The receive buffer holds packets *)
(* popped + 1 .. arrived of what the peer sent (module ReceiveBuffer says  *)
(* why that is so).                                                        *)
(***************************************************************************)
EXTENDS Queues, SessionIds

CONSTANTS
  Chunks,       \* what can be sent
  Talkers,      \* bound: the sessions whose peers send packets
  MinPackets,   \* bound: 0 if a read may end inside the first packet, else 1
  MaxPackets,   \* bound: packets a peer sends on one connection
  WriteFaults   \* whether a write to an open socket can fail

ASSUME SessionAssumption ==
  /\ Talkers \subseteq Sessions
  /\ MinPackets \in {0, 1}
  /\ MaxPackets \in Nat
  /\ WriteFaults \in BOOLEAN

VARIABLES
  socket,      \* "none" before createInstance, then is_open()
  running,     \* m_running
  strand,      \* handlers queued on m_strand
  outbox,      \* handler the owner is about to post, if any
  readOp,      \* an async_read_some is outstanding
  writeOp,     \* an async_write is outstanding
  sendQueue,   \* m_sendQueue
  arrived,     \* whole packets put in m_receiveBuffer so far
  popped,      \* packets removed from it so far
  delivered,   \* chunks given to the network, in order (ghost)
  events,      \* the owner's SessionEventQueue
  reading      \* session whose Receive event the owner is handling

sessionVars == <<socket, running, strand, outbox, readOp, writeOp, sendQueue,
                 arrived, popped, delivered, events, reading>>

\* Error codes of handleError: operation_aborted does nothing, the others stop.
Results == {"ok", "aborted", "fatal"}

AsyncReadHandler == [op |-> "asyncRead"]
CloseHandler == [op |-> "close"]
SendHandler(c) == [op |-> "send", chunk |-> c]
OnReadHandler(result, n) == [op |-> "onRead", result |-> result, n |-> n]
OnWrittenHandler(result) == [op |-> "onWritten", result |-> result]

SendHandlers == [op : {"send"}, chunk : Chunks]
OnReadHandlers == [op : {"onRead"}, result : Results, n : Nat]
OnWrittenHandlers == [op : {"onWritten"}, result : Results]
ReadHandlers == {AsyncReadHandler} \cup OnReadHandlers
Handlers == {CloseHandler} \cup ReadHandlers \cup SendHandlers \cup OnWrittenHandlers

CloseEvent(s) == [type |-> "Close", sid |-> s]
ReceiveEvent(s) == [type |-> "Receive", sid |-> s]

SessionInit ==
  /\ socket = [s \in Sessions |-> "none"]
  /\ running = [s \in Sessions |-> FALSE]
  /\ strand = [s \in Sessions |-> <<>>]
  /\ outbox = [s \in Sessions |-> <<>>]
  /\ readOp = [s \in Sessions |-> FALSE]
  /\ writeOp = [s \in Sessions |-> FALSE]
  /\ sendQueue = [s \in Sessions |-> <<>>]
  /\ arrived = [s \in Sessions |-> 0]
  /\ popped = [s \in Sessions |-> 0]
  /\ delivered = [s \in Sessions |-> <<>>]
  /\ events = <<>>
  /\ reading = NoSession

----------------------------------------------------------------------------
(* The owner's calls.  One thread owns the sessions: while a handler is in *)
(* the outbox it does nothing but post it.                                 *)

OwnerIdle == \A s \in Sessions : outbox[s] = <<>>

\* createInstance() and start(), called by the owner one after the other
\* while nobody else knows the session.
Start(s) ==
  /\ OwnerIdle
  /\ socket[s] = "none"
  /\ socket' = [socket EXCEPT ![s] = "open"]
  /\ running' = [running EXCEPT ![s] = TRUE]
  /\ outbox' = [outbox EXCEPT ![s] = <<AsyncReadHandler>>]
  /\ UNCHANGED <<strand, readOp, writeOp, sendQueue, arrived, popped,
                 delivered, events, reading>>

\* asio::post(m_strand, ...): the last step of start, stop, receive and send.
Post(s) ==
  /\ outbox[s] # <<>>
  /\ strand' = [strand EXCEPT ![s] = Append(@, Head(outbox[s]))]
  /\ outbox' = [outbox EXCEPT ![s] = <<>>]
  /\ UNCHANGED <<socket, running, readOp, writeOp, sendQueue, arrived, popped,
                 delivered, events, reading>>

\* stop(): m_running.exchange(false), then post close() if it was running.
StopAlwaysPosts(s) ==   \* variant: plain store instead of the exchange
  /\ OwnerIdle
  /\ socket[s] # "none"
  /\ running' = [running EXCEPT ![s] = FALSE]
  /\ outbox' = [outbox EXCEPT ![s] = <<CloseHandler>>]
  /\ UNCHANGED <<socket, strand, readOp, writeOp, sendQueue, arrived, popped,
                 delivered, events, reading>>

Stop(s) ==
  /\ OwnerIdle
  /\ running[s]
  /\ running' = [running EXCEPT ![s] = FALSE]
  /\ outbox' = [outbox EXCEPT ![s] = <<CloseHandler>>]
  /\ UNCHANGED <<socket, strand, readOp, writeOp, sendQueue, arrived, popped,
                 delivered, events, reading>>

\* send(chunk): if running, post the handler that queues the chunk.
Send(s, c) ==
  /\ OwnerIdle
  /\ running[s]
  /\ outbox' = [outbox EXCEPT ![s] = <<SendHandler(c)>>]
  /\ UNCHANGED <<socket, running, strand, readOp, writeOp, sendQueue, arrived,
                 popped, delivered, events, reading>>

\* The owner pops a Close event: it forgets the session.
TakeClose(s) ==
  /\ OwnerIdle /\ reading = NoSession
  /\ events # <<>> /\ Head(events) = CloseEvent(s)
  /\ events' = Tail(events)
  /\ UNCHANGED <<socket, running, strand, outbox, readOp, writeOp, sendQueue,
                 arrived, popped, delivered, reading>>

\* The owner pops a Receive event and handles it ...
TakeReceive(s) ==
  /\ OwnerIdle /\ reading = NoSession
  /\ events # <<>> /\ Head(events) = ReceiveEvent(s)
  /\ events' = Tail(events)
  /\ reading' = s
  /\ UNCHANGED <<socket, running, strand, outbox, readOp, writeOp, sendQueue,
                 arrived, popped, delivered>>

\* ... or leaves it, when it is itself stopping or no longer has the session.
SkipReceive(s) ==
  /\ OwnerIdle /\ reading = NoSession
  /\ events # <<>> /\ Head(events) = ReceiveEvent(s)
  /\ events' = Tail(events)
  /\ UNCHANGED <<socket, running, strand, outbox, readOp, writeOp, sendQueue,
                 arrived, popped, delivered, reading>>

\* getFrontPacket() finds a packet in the receive buffer.
AnyPacket(s) == TRUE   \* variant: the size of what is unread is not checked

HasFrontPacket(s) == popped[s] < arrived[s]

\* A turn of the packet loop: getFrontPacket(), then popFrontPacket(), which
\* returns without moving the read offset when the session is not running.
PeekFrontPacket(s) ==   \* variant: the read offset is not moved
  /\ OwnerIdle /\ reading = s
  /\ HasFrontPacket(s)
  /\ UNCHANGED sessionVars

PopFrontPacket(s) ==
  /\ OwnerIdle /\ reading = s
  /\ HasFrontPacket(s)
  /\ popped' = IF running[s] THEN [popped EXCEPT ![s] = @ + 1] ELSE popped
  /\ UNCHANGED <<socket, running, strand, outbox, readOp, writeOp, sendQueue,
                 arrived, delivered, events, reading>>

\* receive(), after the loop: if running, post the next asyncRead().
ReceiveAtOnce(s) ==   \* variant: packets may be left in the buffer
  /\ OwnerIdle /\ reading = s
  /\ outbox' = IF running[s] THEN [outbox EXCEPT ![s] = <<AsyncReadHandler>>]
                             ELSE outbox
  /\ reading' = NoSession
  /\ UNCHANGED <<socket, running, strand, readOp, writeOp, sendQueue, arrived,
                 popped, delivered, events>>

ReceiveNothing(s) ==   \* variant: no further read
  /\ OwnerIdle /\ reading = s
  /\ ~HasFrontPacket(s)
  /\ reading' = NoSession
  /\ UNCHANGED <<socket, running, strand, outbox, readOp, writeOp, sendQueue,
                 arrived, popped, delivered, events>>

Receive(s) ==
  /\ OwnerIdle /\ reading = s
  /\ ~HasFrontPacket(s)
  /\ outbox' = IF running[s] THEN [outbox EXCEPT ![s] = <<AsyncReadHandler>>]
                             ELSE outbox
  /\ reading' = NoSession
  /\ UNCHANGED <<socket, running, strand, readOp, writeOp, sendQueue, arrived,
                 popped, delivered, events>>

----------------------------------------------------------------------------
(* The handlers on the strand. *)

Runs(s, S) == strand[s] # <<>> /\ Head(strand[s]) \in S

\* stop() called by the handler at the head of the strand.
StopWithoutClose(s) ==   \* variant: m_running is cleared and nothing posted
  /\ running' = [running EXCEPT ![s] = FALSE]
  /\ strand' = [strand EXCEPT ![s] = Tail(@)]

StopFromHandler(s) ==
  IF running[s]
  THEN /\ running' = [running EXCEPT ![s] = FALSE]
       /\ strand' = [strand EXCEPT ![s] = Append(Tail(@), CloseHandler)]
  ELSE /\ strand' = [strand EXCEPT ![s] = Tail(@)]
       /\ UNCHANGED running

\* handleError(): operation_aborted is ignored, any other code stops.
HandleError(s, result) ==
  \/ /\ result = "aborted"
     /\ strand' = [strand EXCEPT ![s] = Tail(@)]
     /\ UNCHANGED running
  \/ /\ result = "fatal"
     /\ StopFromHandler(s)

\* asyncRead(): issue a read into the free part of the receive buffer.
AsyncRead(s) ==
  /\ Runs(s, {AsyncReadHandler})
  /\ strand' = [strand EXCEPT ![s] = Tail(@)]
  /\ readOp' = IF running[s] THEN [readOp EXCEPT ![s] = TRUE] ELSE readOp
  /\ UNCHANGED <<socket, running, outbox, writeOp, sendQueue, arrived, popped,
                 delivered, events, reading>>

\* onRead(): the bytes are in the buffer, tell the owner.  There is no test of
\* m_running here.
OnReadReissued(s) ==   \* variant: the next read is issued without waiting
  /\ Runs(s, OnReadHandlers)
  /\ strand' = [strand EXCEPT ![s] = Tail(@)]
  /\ Head(strand[s]).result = "ok"
  /\ arrived' = [arrived EXCEPT ![s] = @ + Head(strand[s]).n]
  /\ events' = Append(events, ReceiveEvent(s))
  /\ readOp' = [readOp EXCEPT ![s] = TRUE]
  /\ UNCHANGED <<socket, outbox, running, writeOp, sendQueue, popped,
                 delivered, reading>>

OnRead(s) ==
  /\ Runs(s, OnReadHandlers)
  /\ \/ /\ Head(strand[s]).result = "ok"
        /\ arrived' = [arrived EXCEPT ![s] = @ + Head(strand[s]).n]
        /\ events' = Append(events, ReceiveEvent(s))
        /\ strand' = [strand EXCEPT ![s] = Tail(@)]
        /\ UNCHANGED running
     \/ /\ HandleError(s, Head(strand[s]).result)
        /\ UNCHANGED <<arrived, events>>
  /\ UNCHANGED <<socket, outbox, readOp, writeOp, sendQueue, popped,
                 delivered, reading>>

\* The handler of send(): queue the chunk, start writing if nobody is.
QueueChunkOnly(s) ==   \* variant: the first chunk does not start a write
  /\ Runs(s, SendHandlers)
  /\ strand' = [strand EXCEPT ![s] = Tail(@)]
  /\ sendQueue' = [sendQueue EXCEPT ![s] = Append(@, Head(strand[s]).chunk)]
  /\ UNCHANGED <<socket, running, outbox, readOp, writeOp, arrived, popped,
                 delivered, events, reading>>

WriteEachChunk(s) ==   \* variant: a write may be under way already
  /\ Runs(s, SendHandlers)
  /\ strand' = [strand EXCEPT ![s] = Tail(@)]
  /\ sendQueue' = [sendQueue EXCEPT ![s] = Append(@, Head(strand[s]).chunk)]
  /\ writeOp' = [writeOp EXCEPT ![s] = @ \/ running[s]]
  /\ UNCHANGED <<socket, running, outbox, readOp, arrived, popped,
                 delivered, events, reading>>

QueueChunkFirst(s) ==   \* variant: push_front
  /\ Runs(s, SendHandlers)
  /\ strand' = [strand EXCEPT ![s] = Tail(@)]
  /\ sendQueue' = [sendQueue EXCEPT ![s] = <<Head(strand[s]).chunk>> \o @]
  /\ writeOp' = [writeOp EXCEPT ![s] = @ \/ (sendQueue[s] = <<>> /\ running[s])]
  /\ UNCHANGED <<socket, running, outbox, readOp, arrived, popped,
                 delivered, events, reading>>

QueueChunk(s) ==
  /\ Runs(s, SendHandlers)
  /\ strand' = [strand EXCEPT ![s] = Tail(@)]
  /\ sendQueue' = [sendQueue EXCEPT ![s] = Append(@, Head(strand[s]).chunk)]
  /\ writeOp' = [writeOp EXCEPT ![s] = @ \/ (sendQueue[s] = <<>> /\ running[s])]
  /\ UNCHANGED <<socket, running, outbox, readOp, arrived, popped,
                 delivered, events, reading>>

\* onWritten(): the chunk at the front is gone, write the next one if any.
OnWritten(s) ==
  /\ Runs(s, OnWrittenHandlers)
  /\ \/ /\ Head(strand[s]).result = "ok"
        /\ sendQueue' = [sendQueue EXCEPT ![s] = Tail(@)]
        /\ writeOp' = [writeOp EXCEPT ![s] = Tail(sendQueue[s]) # <<>> /\ running[s]]
        /\ strand' = [strand EXCEPT ![s] = Tail(@)]
        /\ UNCHANGED running
     \/ /\ HandleError(s, Head(strand[s]).result)
        /\ UNCHANGED <<sendQueue, writeOp>>
  /\ UNCHANGED <<socket, outbox, readOp, arrived, popped, delivered, events,
                 reading>>

\* close(): cancel the outstanding operations, close the socket, tell the
\* owner.  Errors of cancel, shutdown and close call stop(), which does
\* nothing here.
CloseQuietly(s) ==   \* variant: the owner is not told
  /\ Runs(s, {CloseHandler})
  /\ strand' = [strand EXCEPT ![s] = Tail(@)]
  /\ socket' = [socket EXCEPT ![s] = "closed"]
  /\ UNCHANGED <<running, outbox, readOp, writeOp, sendQueue, arrived, popped,
                 delivered, events, reading>>

Close(s) ==
  /\ Runs(s, {CloseHandler})
  /\ strand' = [strand EXCEPT ![s] = Tail(@)]
  /\ socket' = [socket EXCEPT ![s] = "closed"]
  /\ events' = Append(events, CloseEvent(s))
  /\ UNCHANGED <<running, outbox, readOp, writeOp, sendQueue, arrived, popped,
                 delivered, reading>>

----------------------------------------------------------------------------
(* The operating system completes the outstanding operations by posting    *)
(* their handler to the strand: with success or an error of the connection *)
(* while the socket is open, with operation_aborted once it is closed.     *)

\* A read brings the ends of n packets.
OnReadHandlersOf(s) ==
  IF socket[s] = "open"
  THEN {OnReadHandler("ok", n) : n \in IF s \in Talkers
                                       THEN MinPackets..MaxPackets - arrived[s]
                                       ELSE {}}
       \cup {OnReadHandler("fatal", 0)}
  ELSE {OnReadHandler("aborted", 0)}

WriteResults(s) ==
  IF socket[s] = "open"
  THEN {"ok"} \cup (IF WriteFaults THEN {"fatal"} ELSE {})
  ELSE {"aborted"}

CompleteRead(s) ==
  /\ readOp[s]
  /\ readOp' = [readOp EXCEPT ![s] = FALSE]
  /\ \E h \in OnReadHandlersOf(s) : strand' = [strand EXCEPT ![s] = Append(@, h)]
  /\ UNCHANGED <<socket, running, outbox, writeOp, sendQueue, arrived, popped,
                 delivered, events, reading>>

CompleteWrite(s) ==
  /\ writeOp[s]
  /\ writeOp' = [writeOp EXCEPT ![s] = FALSE]
  /\ \E r \in WriteResults(s) :
       /\ strand' = [strand EXCEPT ![s] = Append(@, OnWrittenHandler(r))]
       /\ delivered' = IF r = "ok"
                       THEN [delivered EXCEPT ![s] = Append(@, Head(sendQueue[s]))]
                       ELSE delivered
  /\ UNCHANGED <<socket, running, outbox, readOp, sendQueue, arrived, popped,
                 events, reading>>

----------------------------------------------------------------------------
StrandStep(s) ==
  AsyncRead(s) \/ OnRead(s) \/ QueueChunk(s) \/ OnWritten(s) \/ Close(s)

CompletionStep(s) == CompleteRead(s) \/ CompleteWrite(s)

\* Bound: a chunk is sent at most once on a session.
Unsent(s, c) ==
  /\ ~Occurs(delivered[s], {c}) /\ ~Occurs(sendQueue[s], {c})
  /\ ~Occurs(strand[s], {SendHandler(c)})

OwnerStep(s) ==
  \/ Start(s) \/ Post(s) \/ Stop(s)
  \/ \E c \in Chunks : Unsent(s, c) /\ Send(s, c)
  \/ TakeClose(s) \/ TakeReceive(s) \/ SkipReceive(s)
  \/ PopFrontPacket(s) \/ Receive(s)

SessionNext ==
  \E s \in Sessions : OwnerStep(s) \/ StrandStep(s) \/ CompletionStep(s)

SessionSpec == SessionInit /\ [][SessionNext]_sessionVars

\* io threads run until the queue is empty, a call that has begun is finished,
\* and the operations cancelled by close() complete.  Nothing makes a peer
\* send or take bytes, so completions on an open socket are not fair.
SessionFairness ==
  \A s \in Sessions :
    /\ WF_sessionVars(Post(s))
    /\ WF_sessionVars(StrandStep(s))
    /\ WF_sessionVars(socket[s] = "closed" /\ CompletionStep(s))

FairSessionSpec == SessionSpec /\ SessionFairness

----------------------------------------------------------------------------
\* The state has the shape of the C++ objects.  In particular the packet loop
\* never moves the read offset beyond what has arrived.
SessionTypeOK ==
  /\ socket \in [Sessions -> {"none", "open", "closed"}]
  /\ running \in [Sessions -> BOOLEAN]
  /\ strand \in [Sessions -> Seq(Handlers)]
  /\ outbox \in [Sessions -> Seq(Handlers)]
  /\ readOp \in [Sessions -> BOOLEAN]
  /\ writeOp \in [Sessions -> BOOLEAN]
  /\ sendQueue \in [Sessions -> Seq(Chunks)]
  /\ arrived \in [Sessions -> Nat]
  /\ popped \in [Sessions -> Nat]
  /\ \A s \in Sessions : popped[s] <= arrived[s]
  /\ delivered \in [Sessions -> Seq(Chunks)]
  /\ events \in Seq([type : {"Close", "Receive"}, sid : Sessions])
  /\ reading \in Sessions \cup {NoSession}

\* The receive buffer has no lock.  It is safe because the right to touch it
\* is a token: a posted asyncRead, an outstanding read, its onRead handler,
\* the Receive event and the owner's packet loop never coexist on a session,
\* whatever errors, stops and closes happen in between.
ReadPosted(s) == Occurs(outbox[s], {AsyncReadHandler})
ReadQueued(s) == Occurs(strand[s], ReadHandlers)
ReadTold(s) == Occurs(events, {ReceiveEvent(s)})

OneReadToken(s) ==
  /\ AtMostOnce(strand[s], ReadHandlers)
  /\ AtMostOnce(events, {ReceiveEvent(s)})
  /\ ReadPosted(s) => ~(ReadQueued(s) \/ readOp[s] \/ ReadTold(s) \/ reading = s)
  /\ ReadQueued(s) => ~(readOp[s] \/ ReadTold(s) \/ reading = s)
  /\ readOp[s] => ~(ReadTold(s) \/ reading = s)
  /\ ReadTold(s) => reading # s

ReadExclusive == \A s \in Sessions : OneReadToken(s)

\* A session is closed exactly once, whoever stops it (owner, failed read,
\* failed write, all at once): close() runs with the assertions at its head
\* true, and its Close event is pushed once.
ClosePosted(s) == Occurs(outbox[s], {CloseHandler})
CloseQueued(s) == Occurs(strand[s], {CloseHandler})
CloseTold(s) == Occurs(events, {CloseEvent(s)})

ClosesOnce(s) ==
  /\ AtMostOnce(strand[s], {CloseHandler})
  /\ AtMostOnce(events, {CloseEvent(s)})
  /\ ~(ClosePosted(s) /\ CloseQueued(s))
  /\ ClosePosted(s) \/ CloseQueued(s) => ~running[s] /\ socket[s] = "open"
  /\ CloseTold(s) => socket[s] = "closed"
  /\ running[s] => socket[s] = "open"

CloseProtocol == \A s \in Sessions : ClosesOnce(s)

\* What is still to be delivered of the send queue: not its first chunk once
\* that has been written and only its onWritten handler is still to run.
Unwritten(s) ==
  IF Occurs(strand[s], {OnWrittenHandler("ok")})
  THEN Tail(sendQueue[s])
  ELSE sendQueue[s]

\* At most one async_write is under way (asio requires it), it has a chunk at
\* the front of the queue to write, and on a running session the queue never
\* holds a chunk that no write is going to reach.
WrittenQueued(s) == Occurs(strand[s], OnWrittenHandlers)

QueueServed(s) ==
  /\ AtMostOnce(strand[s], OnWrittenHandlers)
  /\ ~(writeOp[s] /\ WrittenQueued(s))
  /\ writeOp[s] \/ WrittenQueued(s) => sendQueue[s] # <<>>
  /\ running[s] /\ sendQueue[s] # <<>> => writeOp[s] \/ WrittenQueued(s)

WriteServed == \A s \in Sessions : QueueServed(s)

\* A session that has been stopped gets closed, even if its peer never sends
\* or takes a byte again.
StopLeadsToClose ==
  \A s \in Sessions :
    (socket[s] # "none" /\ ~running[s]) ~> (socket[s] = "closed")

====
