---- MODULE ClientLoop ----
(***************************************************************************)
(* What the main threads of the two client programs (DummyClient/Client.cpp*)
(* and GameClient/GameClient.cpp) have in common: the handling of service  *)
(* events, session events and messages on each tick, and the end, which    *)
(* stops the sessions and waits for each of them to be closed.  The main   *)
(* thread owns the sessions of module Session; the service of module       *)
(* ClientService makes their sockets.                                      *)
(***************************************************************************)
EXTENDS Session, ClientService

CONSTANT
  MaxQueue   \* bound: messages that fit in memory

ASSUME MaxQueueAssumption == MaxQueue \in Nat

VARIABLES
  clientRunning,  \* m_running of the client
  mainPc,         \* where the main thread is
  members,        \* m_sessionManager.m_sessions
  messages,       \* number of messages in m_messageQueue
  toStop          \* sessions that stopAllSessions() has yet to visit

loopVars == <<clientRunning, mainPc, members, messages, toStop>>
netVars == <<sessionVars, serviceVars>>
commonVars == <<loopVars, netVars>>

\* start() sets m_running before it makes the main thread and, last of all,
\* starts the service.
LoopInit ==
  /\ SessionInit
  /\ ServiceInit
  /\ clientRunning = TRUE
  /\ mainPc = "service"
  /\ members = {}
  /\ messages = 0
  /\ toStop = {}

GoTo(pc) == mainPc' = pc

----------------------------------------------------------------------------
(* A tick. *)

\* handleServiceEvent(ServiceConnectEvent&): create, register, start.  The
\* branch for a client that is not running is never taken: Connect events are
\* all in front of the Close event, and nothing else in this loop stops.
Connect(s) ==
  /\ mainPc = "service" /\ clientRunning
  /\ TakeServiceEvent(ConnectEvent(s))
  /\ Start(s)
  /\ members' = members \cup {s}
  /\ UNCHANGED <<clientRunning, mainPc, messages, toStop>>

ServiceEventsDone ==
  /\ mainPc = "service" /\ OwnerIdle
  /\ serviceEvents = <<>>
  /\ GoTo("session")
  /\ UNCHANGED <<clientRunning, members, messages, toStop, netVars>>

\* handleSessionEvent(SessionCloseEvent&), in a tick or in close().
RemoveSession(s) ==
  /\ mainPc \in {"session", "drainEvents"}
  /\ TakeClose(s)
  /\ members' = members \ {s}
  /\ UNCHANGED <<clientRunning, mainPc, messages, toStop, serviceVars>>

\* handleSessionEvent(SessionReceiveEvent&): findSession(), then the packets.
HandleReceive(s) ==
  /\ mainPc = "session" /\ clientRunning
  /\ s \in members
  /\ TakeReceive(s)
  /\ GoTo("packets")
  /\ UNCHANGED <<clientRunning, members, messages, toStop, serviceVars>>

\* findSession() found nothing: what follows is the client's own.
ReceiveWithoutSession(s, pc) ==
  /\ mainPc = "session" /\ clientRunning
  /\ s \notin members
  /\ SkipReceive(s)
  /\ GoTo(pc)
  /\ UNCHANGED <<clientRunning, members, messages, toStop, serviceVars>>

\* The client is stopping: the event is dropped.
DropReceive(s) ==
  /\ mainPc \in {"session", "drainEvents"} /\ ~clientRunning
  /\ SkipReceive(s)
  /\ UNCHANGED <<loopVars, serviceVars>>

\* m_messageQueue.push(), popFrontPacket().
MovePacket(s) ==
  /\ mainPc = "packets"
  /\ PopFrontPacket(s)
  /\ IF messages < MaxQueue THEN messages' = messages + 1 /\ UNCHANGED mainPc
                            ELSE UNCHANGED messages /\ GoTo("crashed")
  /\ UNCHANGED <<clientRunning, members, toStop, serviceVars>>

\* The loop is over: session->receive().
PacketsDone(s) ==
  /\ mainPc = "packets"
  /\ Receive(s)
  /\ GoTo("session")
  /\ UNCHANGED <<clientRunning, members, messages, toStop, serviceVars>>

SessionEventsDone ==
  /\ mainPc = "session" /\ OwnerIdle
  /\ events = <<>>
  /\ GoTo("messages")
  /\ UNCHANGED <<clientRunning, members, messages, toStop, netVars>>

\* processMessages(): dispatch the front message, then pop it.
Dispatch ==
  /\ mainPc = "messages" /\ clientRunning
  /\ messages > 0
  /\ messages' = messages - 1
  /\ UNCHANGED <<clientRunning, mainPc, members, toStop, netVars>>

MessagesDone(pc) ==
  /\ mainPc = "messages"
  /\ messages = 0 \/ ~clientRunning
  /\ GoTo(pc)
  /\ UNCHANGED <<clientRunning, members, messages, toStop, netVars>>

\* The next tick, or close().
TickDone(pc) ==
  /\ mainPc = pc /\ OwnerIdle
  /\ GoTo(IF clientRunning THEN "service" ELSE "stopAll")
  /\ toStop' = IF clientRunning THEN {} ELSE members
  /\ UNCHANGED <<clientRunning, members, messages, netVars>>

----------------------------------------------------------------------------
(* close() *)

\* stopAllSessions()
StopMember(s) ==
  /\ mainPc = "stopAll" /\ OwnerIdle
  /\ s \in toStop
  /\ IF running[s] THEN Stop(s) ELSE UNCHANGED sessionVars
  /\ toStop' = toStop \ {s}
  /\ UNCHANGED <<clientRunning, mainPc, members, messages, serviceVars>>

StopAllDone ==
  /\ mainPc = "stopAll" /\ OwnerIdle
  /\ toStop = {}
  /\ GoTo("drain")
  /\ UNCHANGED <<clientRunning, members, messages, toStop, netVars>>

\* while (!m_sessionManager.isEmpty()) processSessionEvents();
DrainTooShort ==   \* variant: the sessions are not waited for
  /\ mainPc = "drain"
  /\ GoTo("done")
  /\ UNCHANGED <<clientRunning, members, messages, toStop, netVars>>

Drain ==
  /\ mainPc = "drain"
  /\ GoTo(IF members = {} THEN "done" ELSE "drainEvents")
  /\ UNCHANGED <<clientRunning, members, messages, toStop, netVars>>

DrainEventsDone ==
  /\ mainPc = "drainEvents" /\ OwnerIdle
  /\ events = <<>>
  /\ GoTo("drain")
  /\ UNCHANGED <<clientRunning, members, messages, toStop, netVars>>

----------------------------------------------------------------------------
PostHandler(s) == Post(s) /\ UNCHANGED <<loopVars, serviceVars>>

\* The steps that are the same in both programs.
CommonStep ==
  \/ ServiceEventsDone \/ SessionEventsDone \/ Dispatch
  \/ StopAllDone \/ Drain \/ DrainEventsDone
  \/ \E s \in Sessions :
       \/ PostHandler(s) \/ HandleReceive(s) \/ DropReceive(s)
       \/ MovePacket(s) \/ PacketsDone(s) \/ StopMember(s)

\* The other threads run until the process dies.
Alive == mainPc # "crashed"

SessionIoStep(s) == Alive /\ StrandStep(s) /\ UNCHANGED <<loopVars, serviceVars>>

SessionCompletion(s) ==
  Alive /\ CompletionStep(s) /\ UNCHANGED <<loopVars, serviceVars>>

ServiceIo == Alive /\ ServiceIoStep /\ UNCHANGED <<loopVars, sessionVars>>

NetworkAnswers == Alive /\ ServiceCompletion /\ UNCHANGED <<loopVars, sessionVars>>

\* start() of the service by the thread that starts the client; the signal.
Environment ==
  /\ Alive
  /\ BaseStep(StartService) \/ BaseStep(RaiseSignal)
  /\ UNCHANGED <<loopVars, sessionVars>>

\* What the program does beside its main thread.
BackgroundStep ==
  \/ ServiceIo \/ NetworkAnswers \/ Environment
  \/ \E s \in Sessions : SessionIoStep(s) \/ SessionCompletion(s)

\* join() returns: the main thread and, nothing being left to run for the io
\* context, the io threads are at their end.
SessionBusy(s) == strand[s] # <<>> \/ readOp[s] \/ writeOp[s]

Ended == mainPc = "done" /\ ~ServiceBusy /\ \A s \in Sessions : ~SessionBusy(s)

\* The main thread and the io threads never rest; operations that a close()
\* cancelled complete.  The server, the network and signals are free to do
\* nothing.  The io threads never leave all handlers waiting: a handler stays
\* ready until it runs, and there are finitely many.
BackgroundFairness ==
  /\ WF_commonVars(ServiceIo)
  /\ WF_commonVars(NetworkAnswers /\ CancelledCompletion)
  /\ WF_commonVars(\E s \in Sessions : SessionIoStep(s))
  /\ WF_commonVars(\E s \in Sessions : socket[s] = "closed" /\ SessionCompletion(s))

----------------------------------------------------------------------------
LoopTypeOK ==
  /\ SessionTypeOK /\ ServiceTypeOK
  /\ clientRunning \in BOOLEAN
  /\ members \subseteq Sessions
  /\ messages \in 0..MaxQueue
  /\ toStop \subseteq members

\* Service.cpp, Session.cpp and the clients assert that a session that is
\* removed is not running (Session.cpp:344) and that close() finds the client
\* stopped (Client.cpp:100, GameClient.cpp:189); when its main thread is done
\* it has left no connection open, not even one made while it was stopping.
CommonAsserts ==
  /\ \A s \in Sessions : CloseTold(s) => ~running[s]
  /\ mainPc \in {"stopAll", "drain", "drainEvents", "done"} => ~clientRunning
  /\ mainPc = "done" => \A s \in Sessions : socket[s] # "open"

====
