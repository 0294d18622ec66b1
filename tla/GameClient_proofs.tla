---- MODULE GameClient_proofs ----
(***************************************************************************)
(* The invariants of the game client for any number of messages, chunks    *)
(* and packets on its one connection.                                      *)
(*                                                                         *)
(* The sessions keep the invariant of Session_proofs, and the service and  *)
(* the loop those of ClientLoop_proofs.  Two things are the program's own. *)
(* Its main thread stops the service in two steps; in between the service  *)
(* is over, and stays so, until the second posts its close (UiShape).  And *)
(* the state of the connection that is shown follows two event queues: a   *)
(* session is not shown only when the client closes, or once the Close     *)
(* event of the service has been handled (ShownUnlessClosed), and either   *)
(* is for good (ClosingStays, OverStays).                                  *)
(***************************************************************************)
EXTENDS GameClient, ClientLoop_proofs

Places == {"ui", "stopService"} \cup CommonPlaces

UiShape ==
  /\ mainPc \in Places
  /\ connected \in BOOLEAN /\ windowOpen \in BOOLEAN
  /\ serverSessionId \in Sessions \cup {NoSession}
  /\ clientRunning = windowOpen
  /\ nextClientMessageId \in Nat
  /\ mainPc = "stopService" => ServiceOver

\* The two variables agree, and with the session manager.
Shown ==
  /\ connected <=> serverSessionId # NoSession
  /\ connected => serverSessionId \in members

ShownUnlessClosed ==
  members # {} =>
    connected \/ mainPc \in Stopping \/ (ServiceOver /\ mainPc # "stopService")

ClientInv ==
  /\ IInv /\ ServiceInv /\ LoopShape /\ OpenKnown
  /\ UiShape /\ Shown /\ ShownUnlessClosed

----------------------------------------------------------------------------
(* What keeps the state that is shown true. *)

\* close() goes on to the end.
LEMMA ClosingStays ==
  ASSUME mainPc \in Stopping, CommonStep \/ BackgroundStep \/ UNCHANGED vars
  PROVE  mainPc' \in Stopping
<1> USE DEF Stopping, GoTo
<1>1. CASE ServiceEventsDone \/ SessionEventsDone \/ Dispatch \/ StopAllDone
           \/ Drain \/ DrainEventsDone
  BY <1>1 DEF ServiceEventsDone, SessionEventsDone, Dispatch, StopAllDone, Drain, DrainEventsDone
<1>2. ASSUME NEW s \in Sessions,
             \/ PostHandler(s) \/ HandleReceive(s) \/ DropReceive(s)
             \/ MovePacket(s) \/ PacketsDone(s) \/ StopMember(s)
      PROVE  mainPc' \in Stopping
  BY <1>2 DEF PostHandler, HandleReceive, DropReceive, MovePacket, PacketsDone, StopMember,
     loopVars
<1>3. CASE BackgroundStep \/ UNCHANGED vars
  BY <1>3 DEF BackgroundStep, ServiceIo, NetworkAnswers, Environment, SessionIoStep,
     SessionCompletion, loopVars, vars
<1> QED
  BY <1>1, <1>2, <1>3 DEF CommonStep

\* Steps that leave the session that is shown alone, and do not begin a stop().
LEMMA ShownStays ==
  ASSUME ServiceInv, ShownUnlessClosed, [ServiceStep]_serviceVars,
         members' = members,
         connected' = connected \/ mainPc' \in Stopping,
         mainPc \in Stopping => mainPc' \in Stopping,
         mainPc' = "stopService" => mainPc = "stopService"
  PROVE  ShownUnlessClosed'
BY OverStays DEF ShownUnlessClosed

----------------------------------------------------------------------------
(* The program's own steps. *)

\* Handling a connect: the session is registered and shown.
LEMMA ConnectInv ==
  ASSUME ClientInv, NEW s \in Sessions, HandleConnect(s)
  PROVE  ClientInv'
<1> USE DEF ClientInv
<1>1. IInv' /\ ServiceStep /\ LoopShape' /\ OpenKnown'
  BY ConnectParts DEF HandleConnect
<1>2. ServiceInv'
  BY <1>1, ServiceStepInv
<1>3. UiShape' /\ Shown'
  BY NoSessionAssumption DEF HandleConnect, Connect, UiShape, Shown
<1>4. ShownUnlessClosed'
  BY DEF HandleConnect, ShownUnlessClosed
<1> QED
  BY <1>1, <1>2, <1>3, <1>4

\* There is one connection, so when it is forgotten none is left.
LEMMA CloseInv ==
  ASSUME ClientInv, NEW s \in Sessions, HandleClose(s)
  PROVE  ClientInv'
<1> USE DEF ClientInv
<1>1. IInv' /\ UNCHANGED serviceVars /\ LoopShape' /\ OpenKnown'
  BY RemoveParts DEF HandleClose
<1>2. members' = {}
  BY OneConnection DEF HandleClose, RemoveSession, LoopShape
<1>3. ServiceInv'
  BY <1>1, ServiceStepInv
<1>4. UiShape' /\ Shown'
  BY <1>1 DEF HandleClose, RemoveSession, Disconnected, UiShape, Shown, serviceVars, baseVars,
     ServiceOver, Closed
<1>5. ShownUnlessClosed'
  BY <1>2 DEF ShownUnlessClosed
<1> QED
  BY <1>1, <1>3, <1>4, <1>5

\* What is left of the main thread, without a change to the service.
QuietStep ==
  \/ HandleMessagesDone \/ SendChatMessage \/ FrameDone
  \/ \E s \in Sessions : ReceiveUnknown(s)

\* Steps of frames and of the user that leave the service and what is shown alone.
LEMMA QuietInv == ASSUME ClientInv, QuietStep PROVE ClientInv'
<1> USE DEF ClientInv
<1>1. IInv' /\ socket' = socket /\ UNCHANGED serviceVars
  <2>1. ASSUME UNCHANGED netVars PROVE IInv' /\ socket' = socket /\ UNCHANGED serviceVars
    BY <2>1, StutterIInv DEF netVars, sessionVars
  <2>2. CASE HandleMessagesDone \/ FrameDone
    BY <2>1, <2>2 DEF HandleMessagesDone, FrameDone, MessagesDone, TickDone
  <2>3. CASE SendChatMessage
    <3>1. serverSessionId \in Sessions /\ nextClientMessageId \in Chunks
      BY <2>3 DEF SendChatMessage, Shown, UiShape
    <3>2. UNCHANGED serviceVars
      BY <2>3 DEF SendChatMessage
    <3>3. CASE Send(serverSessionId, nextClientMessageId)
      BY <3>1, <3>2, <3>3, OwnerCalls DEF OwnerCall
    <3>4. CASE UNCHANGED sessionVars
      BY <2>1, <3>2, <3>4 DEF netVars
    <3> QED
      BY <2>3, <3>3, <3>4 DEF SendChatMessage
  <2>4. ASSUME NEW s \in Sessions, ReceiveUnknown(s)
        PROVE  IInv' /\ socket' = socket /\ UNCHANGED serviceVars
    BY <2>4, OwnerCalls DEF OwnerCall, ReceiveUnknown, ReceiveWithoutSession
  <2> QED
    BY <2>2, <2>3, <2>4 DEF QuietStep
<1>2. ServiceInv'
  BY <1>1, ServiceStepInv
<1>3. /\ members' = members /\ UNCHANGED <<clientRunning, windowOpen>>
      /\ \/ UNCHANGED <<connected, serverSessionId>>
         \/ mainPc' = "stopAll" /\ Disconnected
  BY DEF QuietStep, HandleMessagesDone, MessagesDone, SendChatMessage, FrameDone, TickDone,
     ReceiveUnknown, ReceiveWithoutSession, loopVars, uiVars, GoTo
<1>4. LoopShape'
  BY DEF QuietStep, HandleMessagesDone, MessagesDone, SendChatMessage, FrameDone, TickDone,
     ReceiveUnknown, ReceiveWithoutSession, loopVars, LoopShape, Stopping, GoTo
<1>5. /\ mainPc' \in Places \ {"stopService"} \/ mainPc' = mainPc
      /\ nextClientMessageId' \in Nat
  BY DEF QuietStep, HandleMessagesDone, MessagesDone, SendChatMessage, FrameDone, TickDone,
     ReceiveUnknown, ReceiveWithoutSession, loopVars, uiVars, UiShape, GoTo, Places,
     CommonPlaces, Stopping
<1>6. UiShape'
  BY <1>1, <1>3, <1>5 DEF UiShape, Disconnected, ServiceOver, Closed, serviceVars, baseVars
<1>7. OpenKnown' /\ Shown'
  BY <1>1, <1>3 DEF OpenKnown, Shown, Disconnected
<1>8. mainPc \notin Stopping \/ mainPc' = mainPc
  BY DEF QuietStep, HandleMessagesDone, MessagesDone, SendChatMessage, FrameDone, TickDone,
     ReceiveUnknown, ReceiveWithoutSession, loopVars, Stopping
<1>9. ShownUnlessClosed'
  BY <1>1, <1>3, <1>5, <1>8, ShownStays DEF Stopping
<1> QED
  BY <1>1, <1>2, <1>4, <1>6, <1>7, <1>9

\* The Close event of the service: from then on the session is not shown.
LEMMA ServiceCloseInv == ASSUME ClientInv, HandleServiceClose PROVE ClientInv'
<1> USE DEF ClientInv
<1>1. /\ TakeServiceEvent(ServiceCloseEvent) /\ UNCHANGED sessionVars
      /\ UNCHANGED <<windowOpen, nextClientMessageId, loopVars>> /\ Disconnected
      /\ mainPc = "service"
  BY DEF HandleServiceClose
<1>2. IInv' /\ ServiceInv' /\ ServiceOver'
  BY <1>1, StutterIInv, ServiceStepInv, OverWhenTold, ServiceEventSorts DEF ServiceStep
<1>3. LoopShape' /\ OpenKnown'
  BY <1>1 DEF LoopShape, OpenKnown, loopVars, sessionVars
<1>4. UiShape' /\ Shown'
  BY <1>1 DEF UiShape, Shown, Disconnected, loopVars
<1>5. ShownUnlessClosed'
  BY <1>1, <1>2 DEF ShownUnlessClosed, loopVars
<1> QED
  BY <1>2, <1>3, <1>4, <1>5

\* The user closes the window: the first step of stop().
LEMMA WindowCloseInv == ASSUME ClientInv, HandleWindowClose PROVE ClientInv'
<1> USE DEF ClientInv
<1>1. /\ mainPc = "ui" /\ clientRunning' = FALSE /\ windowOpen' = FALSE
      /\ mainPc' = IF serviceRunning THEN "stopService" ELSE "ui"
      /\ ClearServiceRunning /\ UNCHANGED sessionVars
      /\ UNCHANGED <<members, messages, toStop, connected, serverSessionId,
                     nextClientMessageId>>
  BY DEF HandleWindowClose, GoTo
<1>2. IInv' /\ ServiceInv' /\ (serviceRunning => ServiceOver')
  BY <1>1, StutterIInv, OwnerClears
<1>3. LoopShape' /\ OpenKnown'
  BY <1>1 DEF LoopShape, OpenKnown, sessionVars, Stopping
<1>4. UiShape' /\ Shown'
  BY <1>1, <1>2 DEF UiShape, Shown, Places
<1>5. ShownUnlessClosed'
  <2>1. UNCHANGED <<starter, signal, serviceStrand, serviceEvents>> /\ serviceRunning' = FALSE
    BY <1>1 DEF ClearServiceRunning
  <2> QED
    BY <1>1, <2>1 DEF ShownUnlessClosed, ServiceOver, Stopping, Closed
<1> QED
  BY <1>2, <1>3, <1>4, <1>5

\* The second step of stop(), which stops the service.
LEMMA StopServiceInv == ASSUME ClientInv, StopService PROVE ClientInv'
<1> USE DEF ClientInv
<1>1. /\ mainPc = "stopService" /\ mainPc' = "ui" /\ PostCloseService
      /\ UNCHANGED <<clientRunning, members, messages, toStop, uiVars, sessionVars>>
  BY DEF StopService, GoTo
<1>2. IInv' /\ ServiceInv'
  BY <1>1, StutterIInv, OwnerPostsClose DEF UiShape
<1>3. LoopShape' /\ OpenKnown'
  BY <1>1 DEF LoopShape, OpenKnown, sessionVars, Stopping
<1>4. UiShape' /\ Shown'
  BY <1>1 DEF UiShape, Shown, Places, uiVars
<1>5. ShownUnlessClosed'
  BY <1>1 DEF ShownUnlessClosed, Stopping, uiVars
<1> QED
  BY <1>2, <1>3, <1>4, <1>5

----------------------------------------------------------------------------
\* The client as it is when its threads start.
LEMMA InitClientInv == Init => ClientInv
<1> SUFFICES ASSUME Init PROVE ClientInv
  OBVIOUS
<1>1. IInv /\ ServiceInv /\ LoopShape /\ OpenKnown
  BY InitLoop DEF Init
<1>2. /\ mainPc = "service" /\ members = {} /\ clientRunning = TRUE /\ connected = FALSE
      /\ serverSessionId = NoSession /\ windowOpen = TRUE /\ nextClientMessageId = 1
  BY DEF Init, LoopInit
<1>3. UiShape
  BY <1>2 DEF UiShape, Places, CommonPlaces
<1>4. Shown /\ ShownUnlessClosed
  BY <1>2 DEF Shown, ShownUnlessClosed
<1> QED
  BY <1>1, <1>3, <1>4 DEF ClientInv

\* Each step of the client keeps its invariant.
LEMMA NextClientInv == ClientInv /\ [Next]_vars => ClientInv'
<1> SUFFICES ASSUME ClientInv, [Next]_vars PROVE ClientInv'
  OBVIOUS
<1> USE DEF ClientInv
<1>1. CASE UNCHANGED uiVars /\ (CommonStep \/ BackgroundStep \/ UNCHANGED vars)
  <2>1. /\ IInv' /\ [ServiceStep]_serviceVars /\ LoopShape' /\ OpenKnown'
        /\ members' = members /\ clientRunning' = clientRunning /\ CommonMoves
    <3>1. CASE CommonStep
      BY <3>1, CommonParts, CommonLoop DEF OpenKnown
    <3>2. CASE BackgroundStep
      BY <3>2, BackgroundParts DEF OpensNone, loopVars, LoopShape, OpenKnown, CommonMoves
    <3>3. CASE UNCHANGED vars
      <4>1. UNCHANGED <<loopVars, sessionVars, serviceVars>>
        BY <3>3 DEF vars, netVars
      <4> QED
        BY <4>1, StutterIInv DEF loopVars, sessionVars, LoopShape, OpenKnown, CommonMoves
    <3> QED
      BY <1>1, <3>1, <3>2, <3>3
  <2>2. ServiceInv'
    BY <2>1, ServiceStepInv
  <2>3. mainPc' = "stopService" => ServiceOver'
    BY <2>1, OverStays DEF UiShape, CommonMoves, CommonPlaces, Stopping
  <2>4. UiShape' /\ Shown'
    BY <1>1, <2>1, <2>3 DEF UiShape, Shown, uiVars, CommonMoves, Places
  <2>5. ShownUnlessClosed'
    BY <1>1, <2>1, ClosingStays, ShownStays DEF uiVars, CommonMoves, CommonPlaces, Stopping
  <2> QED
    BY <2>1, <2>2, <2>4, <2>5
<1>2. CASE \/ HandleServiceClose \/ HandleWindowClose \/ StopService
           \/ \E s \in Sessions : HandleConnect(s) \/ HandleClose(s)
  BY <1>2, ServiceCloseInv, WindowCloseInv, StopServiceInv, ConnectInv, CloseInv
<1>3. CASE QuietStep
  BY <1>3, QuietInv
<1> QED
  BY <1>1, <1>2, <1>3 DEF Next, MainStep, UserStep, Halted, QuietStep, vars

\* The inductive invariant of the program.
THEOREM ClientInvariance == Spec => []ClientInv
BY InitClientInv, NextClientInv, PTL DEF Spec

\* GameClient.cpp, Session.cpp: the main thread's data keeps its shape and the
\* assertions on the life cycle hold; a main thread that has ended leaves no
\* connection open.
THEOREM ClientTypeCorrect == Spec => []TypeOK
<1>1. ClientInv => TypeOK
  <2> SUFFICES ASSUME ClientInv PROVE TypeOK
    OBVIOUS
  <2>1. CommonAsserts /\ LoopTypeOK
    BY LoopAsserts DEF ClientInv, IInv, ServiceInv, LoopShape, LoopTypeOK
  <2> QED
    BY <2>1 DEF ClientInv, UiShape, TypeOK, Places, CommonPlaces, Stopping
<1> QED
  BY <1>1, ClientInvariance, PTL

\* GameClient.cpp: "connected" always means a registered session, and a registered
\* session is shown until close() has begun or the service's Close event has
\* been handled, whatever the order of the events of the two queues.
THEOREM StatusStaysTrue == Spec => []StatusIsTrue
<1>1. ClientInv => StatusIsTrue
  BY DEF ClientInv, Shown, ShownUnlessClosed, StatusIsTrue, Closing, Stopping, CloseHandled,
     ServiceOver, CloseHandlers
<1> QED
  BY <1>1, ClientInvariance, PTL

\* Service.cpp: whoever stops the service, the user who closes the window
\* included, it closes once, hands each socket over once and before its Close
\* event, and leaves none open behind it.
THEOREM ClientConnects == Spec => []ConnectProtocol
<1>1. ClientInv => ConnectProtocol
  BY ServiceInvProtocol DEF ClientInv
<1> QED
  BY <1>1, ClientInvariance, PTL

\* Session.cpp: the receive buffer is never touched by two parties at once
\* when the session runs inside the program.
THEOREM ClientReadsExclusive == Spec => []ReadExclusive
<1>1. ClientInv => ReadExclusive
  BY DEF ClientInv, IInv, Local, ReadExclusive
<1> QED
  BY <1>1, ClientInvariance, PTL

\* Each step of the program is a call of a session or leaves the sessions alone.
LEMMA NextCalls == ClientInv /\ [Next]_vars => [SessionCall]_sessionVars
<1> SUFFICES ASSUME ClientInv, [Next]_vars PROVE SessionCall \/ UNCHANGED sessionVars
  OBVIOUS
<1>1. CASE SendChatMessage
  <2>1. serverSessionId \in Sessions /\ nextClientMessageId \in Chunks
    BY <1>1 DEF SendChatMessage, ClientInv, Shown, UiShape
  <2>2. OwnerCall(serverSessionId) \/ UNCHANGED sessionVars
    BY <1>1, <2>1 DEF SendChatMessage, OwnerCall
  <2> QED
    BY <2>1, <2>2 DEF SessionCall
<1>2. CASE \/ HandleServiceClose \/ HandleMessagesDone \/ StopService \/ FrameDone
           \/ HandleWindowClose
  BY <1>2 DEF HandleServiceClose, HandleMessagesDone, StopService, FrameDone, MessagesDone,
     TickDone, HandleWindowClose, netVars
<1>3. CASE \E s \in Sessions : HandleConnect(s) \/ HandleClose(s) \/ ReceiveUnknown(s)
  BY <1>3, EventCalls DEF HandleConnect, HandleClose, ReceiveUnknown
<1>4. CASE UNCHANGED vars
  BY <1>4 DEF vars, netVars
<1> QED
  BY <1>1, <1>2, <1>3, <1>4, CommonCalls, BackgroundCalls DEF Next, MainStep, UserStep, Halted

\* GameClient.cpp, Session.cpp: what the user sends reaches the network whole,
\* once, in the order of the calls, and none of it after the close.
THEOREM ClientSends == Spec => ImplementsSendChannel
<1>1. Init => SessionInit
  BY DEF Init, LoopInit
<1>2. ClientInv /\ [Next]_vars => [Channel!Next]_(Channel!vars)
  BY NextCalls, ChannelSteps DEF ClientInv
<1> QED
  BY <1>1, <1>2, InitChannel, ClientInvariance, PTL DEF Spec, ImplementsSendChannel, Channel!Spec

====
