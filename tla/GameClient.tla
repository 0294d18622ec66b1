---- MODULE GameClient ----
(***************************************************************************)
(* The chat client (GameClient/GameClient.cpp): one connection, a main     *)
(* thread that is also the thread of the user interface, and the state of  *)
(* the connection that the user is shown.  Closing the window stops the    *)
(* client, and the client its service; the end of the service alone does   *)
(* not stop the client.  What the chat window makes of the messages is in  *)
(* module Chat.                                                            *)
(***************************************************************************)
EXTENDS ClientLoop

VARIABLES
  connected,            \* m_connected, also the chat window's copy of it
  serverSessionId,      \* m_serverSessionId
  windowOpen,           \* m_window->isOpen()
  nextClientMessageId   \* m_nextClientMessageId

uiVars == <<connected, serverSessionId, windowOpen, nextClientMessageId>>
vars == <<loopVars, uiVars, netVars>>

\* A message is named by its client_message_id.
ASSUME ChunksAssumption == Chunks \subseteq Nat

\* initializeNetwork() asks the service for one connection (GameClient.cpp:233).
ASSUME OneConnection == \A s, t \in Sessions : s = t

Init ==
  /\ LoopInit
  /\ connected = FALSE
  /\ serverSessionId = NoSession
  /\ windowOpen = TRUE
  /\ nextClientMessageId = 1

Disconnected == connected' = FALSE /\ serverSessionId' = NoSession

----------------------------------------------------------------------------
\* handleServiceEvent(ServiceCloseEvent&): the client goes on, and so does
\* the session, if there is one.
HandleServiceClose ==
  /\ mainPc = "service" /\ OwnerIdle
  /\ TakeServiceEvent(ServiceCloseEvent)
  /\ Disconnected
  /\ UNCHANGED <<windowOpen, nextClientMessageId, loopVars, sessionVars>>

\* handleServiceEvent(ServiceConnectEvent&)
HandleConnect(s) ==
  /\ Connect(s)
  /\ connected' = TRUE
  /\ serverSessionId' = s
  /\ UNCHANGED <<windowOpen, nextClientMessageId>>

\* handleSessionEvent(SessionCloseEvent&)
CloseUnshown(s) ==   \* variant: the connection state is not updated
  RemoveSession(s) /\ UNCHANGED uiVars

CloseShownHalf(s) ==   \* variant: m_connected is kept
  /\ RemoveSession(s)
  /\ serverSessionId' = NoSession
  /\ UNCHANGED <<connected, windowOpen, nextClientMessageId>>

HandleClose(s) ==
  /\ RemoveSession(s)
  /\ IF s = serverSessionId THEN Disconnected
                            ELSE UNCHANGED <<connected, serverSessionId>>
  /\ UNCHANGED <<windowOpen, nextClientMessageId>>

\* handleSessionEvent(SessionReceiveEvent&) without a session: nothing.
ReceiveUnknown(s) == ReceiveWithoutSession(s, "session") /\ UNCHANGED uiVars

----------------------------------------------------------------------------
(* The user, whom the same thread serves at the end of the tick.           *)

HandleMessagesDone == MessagesDone("ui") /\ UNCHANGED uiVars

\* sendChatMessage(): the session may no longer be running, or no longer when
\* Session::send() asks again; either way nothing is sent.
SendChatMessage ==
  /\ mainPc = "ui" /\ OwnerIdle
  /\ connected
  /\ nextClientMessageId \in Chunks
  /\ nextClientMessageId' = nextClientMessageId + 1
  /\ \/ serverSessionId \in members /\ Send(serverSessionId, nextClientMessageId)
     \/ /\ serverSessionId \in members => ~running[serverSessionId]
        /\ UNCHANGED sessionVars
  /\ UNCHANGED <<connected, serverSessionId, windowOpen, loopVars, serviceVars>>

\* handleWindowClose(): close the window, stop() the client and its service.
CloseWindowOnly ==   \* variant: the service is not stopped
  /\ mainPc = "ui" /\ OwnerIdle /\ windowOpen
  /\ windowOpen' = FALSE
  /\ clientRunning' = FALSE
  /\ UNCHANGED <<mainPc, members, messages, toStop, connected, serverSessionId,
                 nextClientMessageId, netVars>>

HandleWindowClose ==
  /\ mainPc = "ui" /\ OwnerIdle /\ windowOpen
  /\ windowOpen' = FALSE
  /\ clientRunning' = FALSE
  /\ GoTo(IF serviceRunning THEN "stopService" ELSE "ui")
  /\ ClearServiceRunning
  /\ UNCHANGED <<members, messages, toStop, connected, serverSessionId,
                 nextClientMessageId, sessionVars>>

StopService ==
  /\ mainPc = "stopService"
  /\ GoTo("ui")
  /\ PostCloseService
  /\ UNCHANGED <<clientRunning, members, messages, toStop, uiVars, sessionVars>>

\* The loop ends when the window is closed or the client stopped; close()
\* begins by clearing the connection state.
FrameDone ==
  /\ TickDone("ui")
  /\ IF clientRunning THEN UNCHANGED <<connected, serverSessionId>> ELSE Disconnected
  /\ UNCHANGED <<windowOpen, nextClientMessageId>>

----------------------------------------------------------------------------
MainStep ==
  \/ CommonStep /\ UNCHANGED uiVars
  \/ HandleServiceClose \/ HandleMessagesDone \/ StopService \/ FrameDone
  \/ \E s \in Sessions : HandleConnect(s) \/ HandleClose(s) \/ ReceiveUnknown(s)

UserStep == SendChatMessage \/ HandleWindowClose

\* After "done" only what the io threads still hold runs; a crash ends all.
Halted == mainPc \in {"done", "crashed"} /\ UNCHANGED vars

Next ==
  \/ MainStep \/ UserStep \/ Halted
  \/ BackgroundStep /\ UNCHANGED uiVars

Spec == Init /\ [][Next]_vars

\* The user is free to do nothing.
Fairness == WF_vars(MainStep) /\ BackgroundFairness

FairSpec == Spec /\ Fairness

----------------------------------------------------------------------------
\* The main thread's data has its C++ shape, and the assertions on the life
\* cycle hold.
TypeOK ==
  /\ LoopTypeOK
  /\ CommonAsserts
  /\ mainPc \in {"service", "session", "packets", "messages", "ui", "stopService",
                 "stopAll", "drain", "drainEvents", "done", "crashed"}
  /\ connected \in BOOLEAN
  /\ serverSessionId \in Sessions \cup {NoSession}
  /\ windowOpen \in BOOLEAN
  /\ clientRunning = windowOpen
  /\ nextClientMessageId \in Nat

Closing == mainPc \in {"stopAll", "drain", "drainEvents", "done"}

\* The service was stopped, and its Close event has been handled.
CloseHandled ==
  /\ starter # "idle" /\ ~serviceRunning
  /\ signal # "stopping" /\ mainPc # "stopService"
  /\ ~Occurs(serviceStrand, {CloseServiceHandler}) /\ ~Closed

\* What the user is shown of the connection is kept in two variables, the
\* chat window and the session manager, and changed by events of two queues:
\* "connected" always means a registered session, and a registered session is
\* shown until the client's close() has begun or the Close event of the
\* service has been handled.  From then on its session is not shown, though
\* nothing has closed it (GameClient.cpp:398).
StatusIsTrue ==
  /\ connected <=> serverSessionId # NoSession
  /\ connected => serverSessionId \in members
  /\ members # {} => connected \/ Closing \/ CloseHandled

\* A connection that is lost is shown as lost, so that the user does not go
\* on writing messages that nobody gets.
BrokenIsShown ==
  (connected /\ socket[serverSessionId] = "closed")
    ~> (~connected \/ mainPc = "crashed")

\* When the user closes the window the process ends, whatever the service was
\* doing: every session is closed, and no operation is left that would keep
\* the io threads from ending.  One case is excluded: start() makes the main
\* thread before it starts the service, so a window that is closed in between
\* stops a service that does not run yet, and which then runs on for ever.
StoppedTooEarly == ~windowOpen /\ starter = "idle"

ProcessEnds ==
  []~StoppedTooEarly => (~windowOpen ~> (Ended \/ mainPc = "crashed"))

====
