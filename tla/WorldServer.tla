---- MODULE WorldServer ----
(***************************************************************************)
(* The chat server (WorldServer/Server.cpp, ChatRoom.cpp): a main thread   *)
(* that each tick handles the service events, the session events and the   *)
(* messages they left, composed with the io side of its service and of its *)
(* sessions.  The main thread owns the sessions of module Session.         *)
(***************************************************************************)
EXTENDS Session, ServerService

CONSTANT
  MaxQueue   \* bound: messages that fit in memory

ASSUME MaxQueueAssumption == MaxQueue \in Nat

\* A response is named by its message_id; Chunks bounds how many there are.
ASSUME ChunksAssumption == Chunks \subseteq Nat

VARIABLES
  serverRunning,  \* WorldServer::m_running
  mainPc,         \* where the main thread is
  members,        \* m_sessionManager.m_sessions
  active,         \* m_chatRoom.m_activeSessions
  messages,       \* m_messageQueue
  nextMessageId,  \* m_chatRoom.m_nextMessageId
  recipients      \* sessions the current loop over sessions has yet to visit

mainVars == <<serverRunning, mainPc, members, active, messages, nextMessageId,
              recipients>>
vars == <<mainVars, sessionVars, serviceVars>>

Message(s, n) == [sid |-> s, packet |-> n]

Init ==
  /\ SessionInit
  /\ ServiceInit
  /\ serverRunning = TRUE
  /\ mainPc = "service"
  /\ members = {}
  /\ active = {}
  /\ messages = <<>>
  /\ nextMessageId = 1
  /\ recipients = {}

----------------------------------------------------------------------------
(* processServiceEvents() *)

\* handleServiceEvent(ServiceCloseEvent&): stop().
HandleServiceClose ==
  /\ mainPc = "service" /\ OwnerIdle
  /\ TakeServiceEvent(ServiceCloseEvent)
  /\ serverRunning' = FALSE
  /\ UNCHANGED <<mainPc, members, active, messages, nextMessageId, recipients,
                 sessionVars>>

\* handleServiceEvent(ServiceAcceptEvent&): create, register, start.
AcceptUnregistered(s) ==   \* variant: without addSession()
  /\ mainPc = "service" /\ serverRunning
  /\ TakeServiceEvent(AcceptEvent(s))
  /\ Start(s)
  /\ UNCHANGED mainVars

HandleAccept(s) ==
  /\ mainPc = "service" /\ serverRunning
  /\ TakeServiceEvent(AcceptEvent(s))
  /\ Start(s)
  /\ members' = members \cup {s}
  /\ active' = active \cup {s}
  /\ UNCHANGED <<serverRunning, mainPc, messages, nextMessageId, recipients>>

SkipAccept(s) ==
  /\ mainPc = "service" /\ OwnerIdle /\ ~serverRunning
  /\ TakeServiceEvent(AcceptEvent(s))
  /\ UNCHANGED <<mainVars, sessionVars>>

ServiceEventsDone ==
  /\ mainPc = "service" /\ OwnerIdle
  /\ serviceEvents = <<>>
  /\ mainPc' = "session"
  /\ UNCHANGED <<serverRunning, members, active, messages, nextMessageId,
                 recipients, sessionVars, serviceVars>>

----------------------------------------------------------------------------
(* processSessionEvents(), called each tick and by close() *)

\* handleSessionEvent(SessionCloseEvent&)
KeepInChatRoom(s) ==   \* variant: the chat room is not told
  /\ mainPc \in {"session", "drainEvents"}
  /\ TakeClose(s)
  /\ members' = members \ {s}
  /\ UNCHANGED <<serverRunning, mainPc, active, messages, nextMessageId,
                 recipients, serviceVars>>

HandleClose(s) ==
  /\ mainPc \in {"session", "drainEvents"}
  /\ TakeClose(s)
  /\ members' = members \ {s}
  /\ active' = active \ {s}
  /\ UNCHANGED <<serverRunning, mainPc, messages, nextMessageId, recipients,
                 serviceVars>>

\* handleSessionEvent(SessionReceiveEvent&): findSession(), then the packets.
HandleReceive(s) ==
  /\ mainPc = "session" /\ serverRunning
  /\ s \in members
  /\ TakeReceive(s)
  /\ mainPc' = "packets"
  /\ UNCHANGED <<serverRunning, members, active, messages, nextMessageId,
                 recipients, serviceVars>>

\* findSession() returned null: the session is used all the same.
ReceiveWithoutSession(s) ==
  /\ mainPc = "session" /\ serverRunning
  /\ s \notin members
  /\ SkipReceive(s)
  /\ mainPc' = "crashed"
  /\ UNCHANGED <<serverRunning, members, active, messages, nextMessageId,
                 recipients, serviceVars>>

\* The server is stopping: the event is dropped.
DropReceive(s) ==
  /\ mainPc \in {"session", "drainEvents"} /\ ~serverRunning
  /\ SkipReceive(s)
  /\ UNCHANGED <<mainVars, serviceVars>>

\* m_messageQueue.push(), popFrontPacket().
MovePacket(s) ==
  /\ mainPc = "packets"
  /\ Len(messages) < MaxQueue
  /\ PopFrontPacket(s)
  /\ messages' = Append(messages, Message(s, popped[s] + 1))
  /\ UNCHANGED <<serverRunning, mainPc, members, active, nextMessageId,
                 recipients, serviceVars>>

OutOfMemory(s) ==
  /\ mainPc = "packets"
  /\ Len(messages) = MaxQueue
  /\ PopFrontPacket(s)
  /\ mainPc' = "crashed"
  /\ UNCHANGED <<serverRunning, members, active, messages, nextMessageId,
                 recipients, serviceVars>>

\* The loop is over: session->receive().
PacketsDoneUnasked(s) ==   \* variant: m_running is not asked
  /\ mainPc = "packets" /\ OwnerIdle /\ reading = s
  /\ ~HasFrontPacket(s)
  /\ outbox' = [outbox EXCEPT ![s] = <<AsyncReadHandler>>]
  /\ reading' = NoSession
  /\ mainPc' = "session"
  /\ UNCHANGED <<serverRunning, members, active, messages, nextMessageId,
                 recipients, serviceVars, socket, running, strand, readOp,
                 writeOp, sendQueue, arrived, popped, delivered, events>>

PacketsDone(s) ==
  /\ mainPc = "packets"
  /\ Receive(s)
  /\ mainPc' = "session"
  /\ UNCHANGED <<serverRunning, members, active, messages, nextMessageId,
                 recipients, serviceVars>>

SessionEventsDone ==
  /\ mainPc = "session" /\ OwnerIdle
  /\ events = <<>>
  /\ mainPc' = "messages"
  /\ UNCHANGED <<serverRunning, members, active, messages, nextMessageId,
                 recipients, sessionVars, serviceVars>>

----------------------------------------------------------------------------
(* processMessages() and ChatRoom::handleChat() *)

\* Dispatch of the front message: the response gets the next id ...
HandleChat ==
  /\ mainPc = "messages" /\ OwnerIdle
  /\ serverRunning
  /\ messages # <<>>
  /\ nextMessageId \in Chunks
  /\ nextMessageId' = nextMessageId + 1
  /\ recipients' = active
  /\ mainPc' = "broadcast"
  /\ UNCHANGED <<serverRunning, members, active, messages, sessionVars,
                 serviceVars>>

Response == nextMessageId - 1

\* ... and is sent to the active sessions, in the order of a hash set.
\* SessionManager::send() finds the session and asks whether it is running.
SendResponse(s) ==
  /\ mainPc = "broadcast"
  /\ s \in recipients /\ s \in members
  /\ Send(s, Response)
  /\ recipients' = recipients \ {s}
  /\ UNCHANGED <<serverRunning, mainPc, members, active, messages,
                 nextMessageId, serviceVars>>

SendFails(s) ==
  /\ mainPc = "broadcast" /\ OwnerIdle
  /\ s \in recipients
  /\ s \in members => ~running[s]
  /\ recipients' = recipients \ {s}
  /\ UNCHANGED <<serverRunning, mainPc, members, active, messages,
                 nextMessageId, sessionVars, serviceVars>>

BroadcastDone ==
  /\ mainPc = "broadcast" /\ OwnerIdle
  /\ recipients = {}
  /\ messages' = Tail(messages)
  /\ mainPc' = "messages"
  /\ UNCHANGED <<serverRunning, members, active, nextMessageId, recipients,
                 sessionVars, serviceVars>>

\* Nothing is left to dispatch: the next tick, or close().
TickDone ==
  /\ mainPc = "messages" /\ OwnerIdle
  /\ messages = <<>> \/ ~serverRunning
  /\ mainPc' = IF serverRunning THEN "service" ELSE "stopAll"
  /\ recipients' = IF serverRunning THEN {} ELSE members
  /\ UNCHANGED <<serverRunning, members, active, messages, nextMessageId,
                 sessionVars, serviceVars>>

----------------------------------------------------------------------------
(* close() *)

\* stopAllSessions()
StopMember(s) ==
  /\ mainPc = "stopAll"
  /\ s \in recipients
  /\ Stop(s)
  /\ recipients' = recipients \ {s}
  /\ UNCHANGED <<serverRunning, mainPc, members, active, messages,
                 nextMessageId, serviceVars>>

AlreadyStopped(s) ==
  /\ mainPc = "stopAll" /\ OwnerIdle
  /\ s \in recipients
  /\ ~running[s]
  /\ recipients' = recipients \ {s}
  /\ UNCHANGED <<serverRunning, mainPc, members, active, messages,
                 nextMessageId, sessionVars, serviceVars>>

StopAllDone ==
  /\ mainPc = "stopAll" /\ OwnerIdle
  /\ recipients = {}
  /\ mainPc' = "drain"
  /\ UNCHANGED <<serverRunning, members, active, messages, nextMessageId,
                 recipients, sessionVars, serviceVars>>

\* while (!m_sessionManager.isEmpty()) processSessionEvents();
DrainMore ==
  /\ mainPc = "drain" /\ OwnerIdle
  /\ members # {}
  /\ mainPc' = "drainEvents"
  /\ UNCHANGED <<serverRunning, members, active, messages, nextMessageId,
                 recipients, sessionVars, serviceVars>>

DrainEventsDone ==
  /\ mainPc = "drainEvents" /\ OwnerIdle
  /\ events = <<>>
  /\ mainPc' = "drain"
  /\ UNCHANGED <<serverRunning, members, active, messages, nextMessageId,
                 recipients, sessionVars, serviceVars>>

\* m_ioThreadPool.reset(): the io threads end when nothing is left to run.
DrainTooShort ==   \* variant: the sessions are not waited for
  /\ mainPc = "drain" /\ OwnerIdle
  /\ mainPc' = "done"
  /\ UNCHANGED <<serverRunning, members, active, messages, nextMessageId,
                 recipients, sessionVars, serviceVars>>

DrainDone ==
  /\ mainPc = "drain" /\ OwnerIdle
  /\ members = {}
  /\ mainPc' = "done"
  /\ UNCHANGED <<serverRunning, members, active, messages, nextMessageId,
                 recipients, sessionVars, serviceVars>>

----------------------------------------------------------------------------
PostHandler(s) == Post(s) /\ UNCHANGED <<mainVars, serviceVars>>

MainStep ==
  \/ HandleServiceClose \/ ServiceEventsDone \/ SessionEventsDone
  \/ HandleChat \/ BroadcastDone \/ TickDone
  \/ StopAllDone \/ DrainMore \/ DrainEventsDone \/ DrainDone
  \/ \E s \in Sessions :
       \/ PostHandler(s)
       \/ HandleAccept(s) \/ SkipAccept(s)
       \/ HandleClose(s) \/ HandleReceive(s) \/ ReceiveWithoutSession(s)
       \/ DropReceive(s)
       \/ MovePacket(s) \/ OutOfMemory(s) \/ PacketsDone(s)
       \/ SendResponse(s) \/ SendFails(s)
       \/ StopMember(s) \/ AlreadyStopped(s)

\* The other threads run until the process dies.
Alive == mainPc # "crashed"

SessionIoStep(s) == Alive /\ StrandStep(s) /\ UNCHANGED <<mainVars, serviceVars>>

SessionCompletion(s) ==
  Alive /\ CompletionStep(s) /\ UNCHANGED <<mainVars, serviceVars>>

ServiceIo == Alive /\ ServiceIoStep /\ UNCHANGED <<mainVars, sessionVars>>

AcceptCompletion == Alive /\ CompleteAccept /\ UNCHANGED <<mainVars, sessionVars>>

\* start() of the service by the thread that starts the server; the signal.
Environment ==
  /\ Alive
  /\ BaseStep(StartService) \/ BaseStep(RaiseSignal)
  /\ UNCHANGED <<mainVars, sessionVars>>

\* After "done" only what the io threads still hold runs; a crash ends all.
Halted == mainPc \in {"done", "crashed"} /\ UNCHANGED vars

Next ==
  \/ MainStep \/ ServiceIo \/ AcceptCompletion \/ Environment \/ Halted
  \/ \E s \in Sessions : SessionIoStep(s) \/ SessionCompletion(s)

Spec == Init /\ [][Next]_vars

\* The main loop and the io threads never rest; operations that close()
\* cancelled complete.  Clients and signals are free to do nothing.
Fairness ==
  /\ WF_vars(MainStep)
  /\ WF_vars(ServiceIo /\ PostAsyncAccept)
  /\ WF_vars(ServiceIo /\ SignalStep)
  /\ WF_vars(ServiceIo /\ ServiceStrandStep)
  /\ WF_vars(acceptor = "closed" /\ AcceptCompletion)
  /\ \A s \in Sessions :
       /\ WF_vars(SessionIoStep(s))
       /\ WF_vars(socket[s] = "closed" /\ SessionCompletion(s))

FairSpec == Spec /\ Fairness

----------------------------------------------------------------------------
\* The main thread's data has its C++ shape.  The two tables of connected
\* sessions, SessionManager's and ChatRoom's, hold the same sessions: a
\* session that the chat room kept would be sent to in vain for ever.
MainTypeOK ==
  /\ serverRunning \in BOOLEAN
  /\ mainPc \in {"service", "session", "packets", "messages", "broadcast",
                 "stopAll", "drain", "drainEvents", "done", "crashed"}
  /\ members \subseteq Sessions
  /\ active = members
  /\ messages \in Seq([sid : Sessions, packet : Nat])
  /\ nextMessageId \in Nat
  /\ recipients \subseteq Sessions

TypeOK == SessionTypeOK /\ ServiceTypeOK /\ MainTypeOK

\* A session whose chunks no write will ever reach, as a failed write leaves
\* it: stopped, with the chunk that was not written at the front of the queue.
WriteGivenUp(s) ==
  /\ socket[s] # "none" /\ ~running[s]
  /\ sendQueue[s] # <<>>
  /\ ~writeOp[s] /\ ~WrittenQueued(s)

\* The main thread is about to look up the session of a Receive event, and
\* does not have it any more.
ReceiveOfUnknown(s) ==
  /\ mainPc = "session" /\ serverRunning /\ OwnerIdle
  /\ events # <<>> /\ Head(events) = ReceiveEvent(s)
  /\ s \notin members

\* Server.cpp:197 asserts that a Receive event finds its session.  The code
\* does not see to it: a write that fails stops the session and posts close()
\* while a read goes on, which may complete before close() runs; its Receive
\* event is then queued behind the Close event that removes the session.
ReceiveFindsSession == \A s \in Sessions : ~ReceiveOfUnknown(s)

\* That is the only way in which the assertion of Server.cpp:197 fails: a
\* session is never removed before its last Receive event by a failed read,
\* by a call of stop() or by what the other sessions do.
ReceiveFindsSessionOrGivenUp ==
  \A s \in Sessions : ReceiveOfUnknown(s) => WriteGivenUp(s)

\* A packet that was queued as a message has left the receive buffer
\* ("수신 버퍼에서 패킷 제거", Server.cpp:205): no packet is queued twice, and
\* the packets of a session are queued in the order in which they came.  The
\* code breaks this too: on a session that a failed write has stopped,
\* popFrontPacket() removes nothing and the loop queues the packet again.
PacketMovedOnce ==
  \A i, j \in 1..Len(messages) :
    i < j /\ messages[i].sid = messages[j].sid =>
      messages[i].packet < messages[j].packet

\* The packets of a session are queued in the order in which they came, each
\* once, however reads group them; only the packet at the front of the receive
\* buffer of a session whose write failed is ever queued again.
StuckAtFront(m) == m.packet = popped[m.sid] + 1 /\ WriteGivenUp(m.sid)

PacketMovedOnceOrGivenUp ==
  \A i, j \in 1..Len(messages) :
    i < j /\ messages[i].sid = messages[j].sid =>
      \/ messages[i].packet < messages[j].packet
      \/ messages[i] = messages[j] /\ StuckAtFront(messages[j])

\* q is the ids that follow id, in order.
Follow(q, id) == \A i \in 1..Len(q) : q[i] = id + i

\* The send handlers of q carry the ids after from and up to to, in order.
Carries(q, from, to) ==
  /\ from <= to
  /\ {c \in Chunks : Occurs(q, {SendHandler(c)})} = from + 1..to
  /\ \A i, j \in 1..Len(q) :
       i < j /\ q[i] \in SendHandlers /\ q[j] \in SendHandlers =>
         q[i].chunk < q[j].chunk

LastDelivered(s, first) == first + Len(delivered[s])
LastQueued(s, first) == LastDelivered(s, first) + Len(Unwritten(s))
LastPosted(s, last) == IF Occurs(outbox[s], SendHandlers) THEN last - 1 ELSE last

\* The ids after first and up to last are on their way or delivered.
OnTheWay(s, first, last) ==
  /\ Follow(delivered[s], first)
  /\ Follow(Unwritten(s), LastDelivered(s, first))
  /\ Carries(strand[s], LastQueued(s, first), LastPosted(s, last))
  /\ Occurs(outbox[s], SendHandlers) => Head(outbox[s]).chunk = last

LastDispatched(s) ==
  IF mainPc = "broadcast" /\ s \in recipients THEN Response - 1 ELSE Response

\* The responses on their way to a session's client, and those it got, are a
\* run of consecutive ids: from the first one after it joined, none is
\* missing, repeated or out of order, on any session; a running session has
\* all of them up to the last one dispatched.  First come those delivered,
\* then those in the send queue and not yet written, then those whose send
\* handler is queued or about to be posted.
BroadcastOrder ==
  \A s \in Sessions : \E first, last \in 0..Response :
    /\ OnTheWay(s, first, last)
    /\ running[s] => last = LastDispatched(s)

\* While the server runs, a running session's read token is somewhere: it
\* is being read, or the event or call that leads to the next read is queued.
NoReadStall ==
  \A s \in Sessions :
    serverRunning /\ running[s] =>
      ReadPosted(s) \/ ReadQueued(s) \/ readOp[s] \/ ReadTold(s) \/ reading = s

\* Server.cpp and Session.cpp assert that a session removed is not running
\* (Session.cpp:344), that a Close event of the service comes while the server
\* runs (Server.cpp:142) and that close() finds it stopped (Server.cpp:102).
LifecycleAsserts ==
  /\ \A s \in Sessions : CloseTold(s) => ~running[s]
  /\ Occurs(serviceEvents, {ServiceCloseEvent}) => serverRunning
  /\ mainPc \in {"stopAll", "drain", "drainEvents", "done"} => ~serverRunning

\* When the main thread is done the acceptor is closed and no session is left
\* open, whatever the order of the Accept events and the Close event of the
\* service: the io threads have only cancelled operations to finish and join()
\* returns.  (Of a socket in an Accept event that was not handled before the
\* end nothing is said: it has no session and no operation.)
NothingLeftOpen ==
  mainPc = "done" =>
    /\ acceptor = "closed"
    /\ \A s \in Sessions : socket[s] # "open"

\* A read of s has brought bytes and the end of no packet.
PartialRead(s) == Occurs(strand[s], {OnReadHandler("ok", 0)})

\* Once stop() has been called on the running service, by the signal or by a
\* fatal error of the acceptor, the server shuts down, whether or not its
\* clients answer, send or hang up, provided that the parts of packets they
\* send come to an end (a client that sends for ever can keep the main thread
\* in one turn of its loop).  The one other end is a crash by way of a session
\* whose write failed, the case of PacketMovedOnce and ReceiveFindsSession.
StopShutsDown ==
  <>[](\A s \in Sessions : ~PartialRead(s)) =>
    ((starter = "done" /\ ~serviceRunning) ~>
       \/ mainPc = "done"
       \/ mainPc = "crashed" /\ \E s \in Sessions : WriteGivenUp(s))

\* Every packet that has arrived on a session is taken out of its buffer,
\* unless the session or the server stops; packets in parts, other packets and
\* responses under way do not keep it waiting for ever.
ArrivedIsHandled ==
  \A s \in Sessions :
    popped[s] < arrived[s] ~> \/ popped[s] = arrived[s]
                              \/ ~running[s] \/ ~serverRunning

----------------------------------------------------------------------------
\* Each session of the server behaves as module Session says.
ImplementsSession == SessionSpec

====
